---------------------------- MODULE Spec2Model ----------------------------
(***************************************************************************)
(* A model of the part-extraction and boundary-edge engine of the blade    *)
(* cross-section library: lib/layer.py (Layer), lib/station.py             *)
(* (MonoplaneStation), lib/poly_utils.py and scripts/structure.py (Part).  *)
(*                                                                         *)
(* Coordinates are integers in units of 1e-8/3 metres, so that 1e-8 is 3   *)
(* units and 1e-7 is 30 units: two vertices may then differ by less than   *)
(* either tolerance without being equal, and the '.8f' formatting of a     *)
(* written coordinate (a rounding to a multiple of 1e-8) is not the        *)
(* identity.  A point is <<x, y>>; a coordinate array is a sequence of     *)
(* points.  Python's None is the empty sequence, a float is <<v>> and NaN  *)
(* is the pair <<"nan", "nan">>, a value that is neither.  Edge centroids  *)
(* are kept as exact fractions.                                            *)
(***************************************************************************)
EXTENDS Integers, Sequences, FiniteSets, TLC

VARIABLES
    layer,      \* the Layer object (lib/layer.py)
    part,       \* layer.parent_part: the fields get_edges() reads
    sharp_TE,   \* parent_station.airfoil.has_sharp_TE
    last,       \* the last call made and its arguments
    exc,        \* the exception the last call raised ("" when it returned)
    ret,        \* what the last call returned
    prev,       \* the Layer object as it was before the last call
    written,    \* the curves the last call wrote to the file f
    calls,      \* how many calls have been made on the objects so far
    obj         \* the structure.Part object / the station inputs of the last call

vars == <<layer, part, sharp_TE, last, exc, ret, prev, written, calls, obj>>

None == << >>
NaN == <<"nan", "nan">>

----------------------------------------------------------------------------
(* Bounds of the model and constants of the program.                       *)

\* calls made in one run: get_edges2() appends to self.edges and move()
\* shifts the layer on every call, without end
MaxCalls == 3
\* ring rotations tried: the exterior ring may start at any of its first
\* MaxRot+1 vertices
MaxRot == 1

\* tol=1e-08 of get_edges2()
TolEdges2 == 3
\* tol=1.0e-08 of find_corners()
TolCorners == 3
\* tol=1e-07 of write_alt_layer_edges2()
TolWrite2 == 30

----------------------------------------------------------------------------
(* Arithmetic and sequences.                                               *)

Abs(v) == IF v < 0 THEN -v ELSE v

MinOf(S) == CHOOSE v \in S : \A w \in S : v <= w

\* the element of a one-element set: Only({F(v) : v \in {e}}) is F(e) with e
\* evaluated once
Only(S) == CHOOSE v \in S : TRUE

\* math.sqrt on the squared lengths of the model's segments, all perfect
\* squares
RECURSIVE ISqrtFrom(_, _)
ISqrtFrom(q, r) == IF (r + 1) * (r + 1) > q THEN r ELSE ISqrtFrom(q, r + 1)
ISqrt(q) == ISqrtFrom(q, 0)

\* a[i:j] with Python's 0-based, end-exclusive indices, clipped to the array
PySlice(a, i, j) ==
    LET hi == IF j > Len(a) THEN Len(a) ELSE j
    IN  IF i >= hi THEN << >> ELSE SubSeq(a, i + 1, hi)

RECURSIVE Flatten(_)
Flatten(ss) == IF ss = << >> THEN << >> ELSE Head(ss) \o Flatten(Tail(ss))

\* the indices 0..n-1 of a in which test holds, each as often as it is
\* counted, ascending: np.append(match_l, match_r) followed by match.sort()
RECURSIVE SortedMatch(_, _, _)
SortedMatch(cnt, i, n) ==
    IF i >= n THEN << >>
    ELSE (IF cnt[i] = 0 THEN << >>
          ELSE IF cnt[i] = 1 THEN <<i>> ELSE <<i, i>>)
         \o SortedMatch(cnt, i + 1, n)

----------------------------------------------------------------------------
(* Geometry: what the polygon kernel (shapely) computes.                   *)

PX(p) == p[1]
PY(p) == p[2]

\* length of the segment p-q
SegLen(p, q) ==
    LET dx == Abs(PX(q) - PX(p))
        dy == Abs(PY(q) - PY(p))
    IN  IF dx = 0 THEN dy ELSE IF dy = 0 THEN dx ELSE ISqrt(dx * dx + dy * dy)

RECURSIVE LineSums(_, _)
\* <<sum of len*(x+x'), sum of len*(y+y'), sum of len>> over the segments of
\* the line e, from its i-th point on
LineSums(e, i) ==
    IF i >= Len(e) THEN <<0, 0, 0>>
    ELSE LET w == SegLen(e[i], e[i + 1])
             r == LineSums(e, i + 1)
         IN  <<r[1] + w * (PX(e[i]) + PX(e[i + 1])),
               r[2] + w * (PY(e[i]) + PY(e[i + 1])),
               r[3] + w>>

\* asLineString(edge).centroid: the length-weighted mean of the segment
\* midpoints, as the fraction (x/d, y/d) with d > 0; a line of no length
\* has its first point as centroid
Centroid(e) ==
    LET s == LineSums(e, 1)
    IN  IF s[3] = 0 THEN [x |-> PX(e[1]), y |-> PY(e[1]), d |-> 1]
        ELSE [x |-> s[1], y |-> s[2], d |-> 2 * s[3]]

CXLess(c1, c2) == c1.x * c2.d < c2.x * c1.d
CYLess(c1, c2) == c1.y * c2.d < c2.y * c1.d

\* np.nonzero(cx==cx.max())[0][0] and its three siblings: the first index
\* (1-based here) whose centroid coordinate is extreme
XMaxInd(cs) == MinOf({i \in DOMAIN cs : \A j \in DOMAIN cs : ~CXLess(cs[i], cs[j])})
XMinInd(cs) == MinOf({i \in DOMAIN cs : \A j \in DOMAIN cs : ~CXLess(cs[j], cs[i])})
YMaxInd(cs) == MinOf({i \in DOMAIN cs : \A j \in DOMAIN cs : ~CYLess(cs[i], cs[j])})
YMinInd(cs) == MinOf({i \in DOMAIN cs : \A j \in DOMAIN cs : ~CYLess(cs[j], cs[i])})

\* shapely.affinity.translate(g, yoff=d) on a coordinate sequence
Translate(a, d) == [i \in DOMAIN a |-> <<PX(a[i]), PY(a[i]) + d>>]

\* whether the point c is nearer than tol to the segment p-q
NearSegment(c, p, q, tol) ==
    LET dx == PX(q) - PX(p)
        dy == PY(q) - PY(p)
        ex == PX(c) - PX(p)
        ey == PY(c) - PY(p)
        fx == PX(c) - PX(q)
        fy == PY(c) - PY(q)
        t  == ex * dx + ey * dy
        dd == dx * dx + dy * dy
        cr == ex * dy - ey * dx
    IN  IF t <= 0 THEN ex * ex + ey * ey < tol * tol
        ELSE IF t >= dd THEN fx * fx + fy * fy < tol * tol
        ELSE cr * cr < tol * tol * dd

\* LineString(bounding_polygon.exterior).distance(pt) < tol, the ring b
\* given with its closing vertex
NearRing(c, b, tol) ==
    \E i \in 1..(Len(b) - 1) : NearSegment(c, b[i], b[i + 1], tol)

----------------------------------------------------------------------------
(* Layer.get_edges                                                         *)

\* self.name.endswith(suffix) for the names alternate layers are given
\* (material + ', ' + ext_label, poly_utils.py:78)
NameEndsWith(name, suffix) ==
    CASE suffix = "left"   -> name \in {"uniax, upper left", "foam, left"}
      [] suffix = "middle" -> name \in {"uniax, upper middle", "foam, middle"}
      [] suffix = "right"  -> name \in {"uniax, upper right", "foam, right"}
      [] OTHER -> FALSE

\* the x-coordinates (l, r) the corners of a layer are matched against, as
\* <<l, r>>, or << >> when the code leaves them (or match) unassigned
MatchBounds(L, P) ==
    CASE L.cls \in {"SparCap", "AftPanel"} -> <<P.left, P.right>>
      [] L.cls = "TE_Reinforcement" /\ L.name \notin {"uniax", "foam"} ->
            IF NameEndsWith(L.name, "left")
            THEN <<P.left_vertex, P.foam_left_vertex>>
            ELSE IF NameEndsWith(L.name, "middle")
            THEN <<P.foam_left_vertex, P.uniax_left_vertex>>
            ELSE IF NameEndsWith(L.name, "right")
            THEN <<P.uniax_left_vertex, P.uniax_right_vertex>>
            ELSE << >>
      [] L.cls = "ShearWeb" ->
            IF L.name = "biax, left"
            THEN <<P.left, P.left + P.base_biax>>
            ELSE IF L.name = "foam"
            THEN <<P.left + P.base_biax, P.right - P.base_biax>>
            ELSE IF L.name = "biax, right"
            THEN <<P.right - P.base_biax, P.right>>
            ELSE << >>
      [] OTHER -> << >>

B2N(b) == IF b THEN 1 ELSE 0

\* how often index i (0-based) of the exterior coords a is put into match;
\* -1 when match is never assigned
MatchCount(L, P, sharp, i) ==
    LET p == L.polygon[i + 1]
        lr == MatchBounds(L, P)
    IN  CASE L.cls = "RootBuildup" -> B2N(PX(p) = 0) + B2N(PY(p) = 0)
          [] L.cls = "LE_Panel" -> B2N(PX(p) = P.right)
          [] L.cls = "TE_Reinforcement" /\ L.name \in {"uniax", "foam"} ->
                B2N(PX(p) = P.left)
          [] L.cls \in {"SparCap", "AftPanel", "TE_Reinforcement", "ShearWeb"} ->
                IF lr = << >> THEN -1
                ELSE B2N(PX(p) = lr[1]) + B2N(PX(p) = lr[2])
          [] L.cls = "ExternalSurface" ->
                IF sharp THEN -1 ELSE B2N(PX(p) = 0) + B2N(PY(p) = 0)
          [] OTHER -> -1

\* get_edges(): [exc, edges], edges the tuple (edge1, edge2, edge3, edge4)
get_edges(L, P, sharp) ==
    LET a == L.polygon
        n == Len(a)
        cnt == [i \in 0..(n - 1) |-> MatchCount(L, P, sharp, i)]
        match == SortedMatch(cnt, 0, n)
        k == Len(match)
    IN  IF cnt[0] < 0 THEN [exc |-> "UnboundLocalError", edges |-> << >>]
        ELSE IF k < 4 THEN [exc |-> "IndexError", edges |-> << >>]
        ELSE [exc |-> "",
              edges |-> << PySlice(a, match[1], match[2] + 1),
                           PySlice(a, match[2], match[3] + 1),
                           PySlice(a, match[3], match[4] + 1),
                           IF k >= 5
                           THEN PySlice(a, match[4], match[5] + 1)
                           ELSE PySlice(a, match[4], n)
                                \o PySlice(a, 1, match[1] + 1) >>]

----------------------------------------------------------------------------
(* Layer.get_and_save_edges                                                *)
(*                                                                         *)
(* The method runs as a sequence of steps over a record s: the layer being *)
(* written (s.L), the index list l (s.l, always ascending), and the        *)
(* exception raised so far (s.exc).  A step after an exception does        *)
(* nothing, so what was saved before the exception stays saved.            *)

\* the centroids of the edges that are lines, in order: an edge of a single
\* point raises ValueError in asLineString and is skipped
RECURSIVE EdgeCentroids(_)
EdgeCentroids(edges) ==
    IF edges = << >> THEN << >>
    ELSE (IF Len(Head(edges)) < 2 THEN << >> ELSE <<Centroid(Head(edges))>>)
         \o EdgeCentroids(Tail(edges))

\* l.remove(i): ValueError when i is not in the list; i = 0 stands for a
\* name that was never assigned (x_max_ind in a triangular region)
StepRemove(s0, i) ==
    Only({ IF s.exc # "" THEN s
           ELSE IF i = 0 THEN [s EXCEPT !.exc = "UnboundLocalError"]
           ELSE IF i \in s.l THEN [s EXCEPT !.l = @ \ {i}]
           ELSE [s EXCEPT !.exc = "ValueError"] : s \in {s0} })

\* self.<role> = edges[i]
StepSave(s0, role, edges, i) ==
    Only({ IF s.exc # "" THEN s ELSE [s EXCEPT !.L[role] = edges[i]] : s \in {s0} })

\* l.remove(i) and then self.<role> = edges[i]
StepRemoveSave(s0, role, edges, i) ==
    Only({ StepSave(s, role, edges, i) : s \in {StepRemove(s0, i)} })

\* self.<role> = edges[l[0]]: IndexError when l is empty
StepSaveFirst(s0, role, edges) ==
    Only({ IF s.exc # "" THEN s
           ELSE IF s.l = {} THEN [s EXCEPT !.exc = "IndexError"]
           ELSE [s EXCEPT !.L[role] = edges[MinOf(s.l)]] : s \in {s0} })

\* self.right = None
StepClear(s0, role) ==
    Only({ IF s.exc # "" THEN s ELSE [s EXCEPT !.L[role] = None] : s \in {s0} })

\* the closing if as it would be with its comparison turned round: the
\* edge whose centroid is lower becomes top
StepTopBottom_LowerOnTop(s0, edges, cs) ==
    Only({ IF s.exc # "" THEN s
           ELSE IF Cardinality(s.l) < 2 THEN [s EXCEPT !.exc = "IndexError"]
           ELSE LET l0 == MinOf(s.l)
                    l1 == MinOf(s.l \ {l0})
                IN  IF CYLess(cs[l0], cs[l1])
                    THEN [s EXCEPT !.L.top = edges[l0], !.L.bottom = edges[l1]]
                    ELSE [s EXCEPT !.L.top = edges[l1], !.L.bottom = edges[l0]]
           : s \in {s0} })

\* the closing if: of the two indices left in l, the edge whose centroid is
\* higher becomes top and the other bottom; IndexError when l[1] is missing
StepTopBottom(s0, edges, cs) ==
    Only({ IF s.exc # "" THEN s
           ELSE IF Cardinality(s.l) < 2 THEN [s EXCEPT !.exc = "IndexError"]
           ELSE LET l0 == MinOf(s.l)
                    l1 == MinOf(s.l \ {l0})
                IN  IF CYLess(cs[l1], cs[l0])
                    THEN [s EXCEPT !.L.top = edges[l0], !.L.bottom = edges[l1]]
                    ELSE [s EXCEPT !.L.top = edges[l1], !.L.bottom = edges[l0]]
           : s \in {s0} })

\* left = min-x edge, right = max-x edge, top/bottom of the other two
\* (SparCap, AftPanel, ShearWeb: lines 299-320 and 346-356)
SaveLeftRightTopBottom(s0, edges, cs, x_min_ind, x_max_ind) ==
    StepTopBottom(
        StepRemoveSave(
            StepRemoveSave(s0, "left", edges, x_min_ind),
            "right", edges, x_max_ind),
        edges, cs)

\* first index (1-based) whose centroid has x = 0 (y = 0); 0 when none
IndX0(cs) ==
    IF \E i \in DOMAIN cs : cs[i].x = 0
    THEN MinOf({i \in DOMAIN cs : cs[i].x = 0}) ELSE 0
IndY0(cs) ==
    IF \E i \in DOMAIN cs : cs[i].y = 0
    THEN MinOf({i \in DOMAIN cs : cs[i].y = 0}) ELSE 0

\* np.nonzero(...)[0][0] on an empty match (IndexError), then l.remove(i)
StepFoundRemove(s0, i) ==
    Only({ IF s.exc # "" THEN s
           ELSE IF i = 0 THEN [s EXCEPT !.exc = "IndexError"]
           ELSE StepRemove(s, i) : s \in {s0} })

\* the names of the RootBuildup layers whose edge on x = 0 is the right one,
\* and of those whose edge on x = 0 is the left one
RightAtX0 == {"triax, lower left", "triax, upper left"}
LeftAtX0 == {"triax, lower right", "triax, upper right"}

\* the if/elif on self.name as it would be if the lower right quadrant
\* were treated like the two left ones
StepSaveByName_LowerRightAsLeft(s0, edges, ind_x, ind_y) ==
    Only({ IF s.exc # "" THEN s
           ELSE IF s.L.name \in RightAtX0 \cup {"triax, lower right"}
           THEN [s EXCEPT !.L.right = edges[ind_x], !.L.left = edges[ind_y]]
           ELSE IF s.L.name \in LeftAtX0
           THEN [s EXCEPT !.L.left = edges[ind_x], !.L.right = edges[ind_y]]
           ELSE s : s \in {s0} })

\* the if/elif on self.name of the RootBuildup branch (lines 272-283)
StepSaveByName(s0, edges, ind_x, ind_y) ==
    Only({ IF s.exc # "" THEN s
           ELSE IF s.L.name \in RightAtX0
           THEN [s EXCEPT !.L.right = edges[ind_x], !.L.left = edges[ind_y]]
           ELSE IF s.L.name \in LeftAtX0
           THEN [s EXCEPT !.L.left = edges[ind_x], !.L.right = edges[ind_y]]
           ELSE s : s \in {s0} })

\* the RootBuildup branch (lines 265-290)
SaveRootBuildup(s0, edges, cs) ==
    Only({ StepTopBottom(
               StepSaveByName(
                   StepFoundRemove(StepFoundRemove(s0, ix[1]), ix[2]),
                   edges, ix[1], ix[2]),
               edges, cs) : ix \in {<<IndX0(cs), IndY0(cs)>>} })

\* the LE_Panel branch (lines 291-298)
SaveLEPanel(s0, edges, x_min_ind, y_max_ind, y_min_ind) ==
    StepSaveFirst(
        StepRemoveSave(
            StepRemoveSave(
                StepRemoveSave(s0, "left", edges, x_min_ind),
                "top", edges, y_max_ind),
            "bottom", edges, y_min_ind),
        "right", edges)

\* the uniax and foam layers of the TE reinforcement (lines 322-329)
SaveTEReinforcement(s0, edges, x_max_ind, y_max_ind, y_min_ind) ==
    StepSaveFirst(
        StepRemoveSave(
            StepRemoveSave(
                StepRemoveSave(s0, "right", edges, x_max_ind),
                "top", edges, y_max_ind),
            "bottom", edges, y_min_ind),
        "left", edges)

\* the alternate TE reinforcement branch as it would be taking the first
\* edge left in l for the right edge of a triangular region
SaveAltTEReinforcement_RightInTriangle(s0, edges, cs, triangular, x_min_ind, x_max_ind) ==
    StepTopBottom(
        IF ~triangular
        THEN StepRemoveSave(StepRemoveSave(s0, "left", edges, x_min_ind),
                            "right", edges, x_max_ind)
        ELSE StepSaveFirst(StepRemoveSave(s0, "left", edges, x_min_ind), "right",
                           edges),
        edges, cs)

\* an alternate layer of the TE reinforcement (lines 330-345)
SaveAltTEReinforcement(s0, edges, cs, triangular, x_min_ind, x_max_ind) ==
    StepTopBottom(
        IF ~triangular
        THEN StepRemoveSave(StepRemoveSave(s0, "left", edges, x_min_ind),
                            "right", edges, x_max_ind)
        ELSE StepClear(StepRemoveSave(s0, "left", edges, x_min_ind), "right"),
        edges, cs)

\* the dispatch on the class of the parent part (lines 265-356), with the
\* indices ind = <<x_max_ind, x_min_ind, y_max_ind, y_min_ind>>
SaveByClass(s0, edges, cs, triangular_region, ind) ==
    CASE s0.L.cls = "RootBuildup" -> SaveRootBuildup(s0, edges, cs)
      [] s0.L.cls = "LE_Panel" ->
            SaveLEPanel(s0, edges, ind[2], ind[3], ind[4])
      [] s0.L.cls \in {"SparCap", "AftPanel", "ShearWeb"} ->
            SaveLeftRightTopBottom(s0, edges, cs, ind[2], ind[1])
      [] s0.L.cls = "TE_Reinforcement" /\ s0.L.name \in {"uniax", "foam"} ->
            SaveTEReinforcement(s0, edges, ind[1], ind[3], ind[4])
      [] s0.L.cls = "TE_Reinforcement" ->
            SaveAltTEReinforcement(s0, edges, cs, triangular_region,
                                   ind[2], ind[1])
      [] OTHER -> s0

\* lines 232-264: the centroids cs of the edges, the flag and the indices
\* of the extreme centroids; x_max_ind is not assigned (0) in a triangular
\* region, and centroids[2] of fewer than three centroids is an IndexError
SaveWithCentroids(L, edges, cs) ==
    IF Len(cs) < 3 THEN [exc |-> "IndexError", L |-> L]
    ELSE Only({ [exc |-> s.exc, L |-> s.L] :
                s \in { SaveByClass(
                            [L |-> L, exc |-> "",
                             l |-> IF Len(cs) < 4 THEN 1..3 ELSE 1..4],
                            edges, cs, Len(cs) < 4, ind) :
                        ind \in {<< IF Len(cs) < 4 THEN 0 ELSE XMaxInd(cs),
                                    XMinInd(cs), YMaxInd(cs), YMinInd(cs) >>} } })

\* get_and_save_edges(): [exc, L], L the layer as the call leaves it
get_and_save_edges(L, P, sharp) ==
    Only({ IF g.exc # "" THEN [exc |-> g.exc, L |-> L]
           ELSE Only({ SaveWithCentroids(L, g.edges, cs) :
                       cs \in {EdgeCentroids(g.edges)} })
           : g \in {get_edges(L, P, sharp)} })

----------------------------------------------------------------------------
(* Layer.find_corners, Layer.get_edges2 and the alternate-layer writers.   *)
(*                                                                         *)
(* get_edges2() cuts its edges out of a numpy array by basic slicing, so   *)
(* an edge is a view: it shares its rows with the array and with the       *)
(* neighbouring edges.  L.arrays are the arrays made so far and an edge of *)
(* L.edges is [arr, lo, hi], rows lo..hi (1-based, inclusive) of           *)
(* L.arrays[arr].  np.vstack makes an array of its own.                    *)

EdgeVal(L, e) == SubSeq(L.arrays[e.arr], e.lo, e.hi)

\* the coordinate arrays of self.edges
EdgeVals(L) == [i \in DOMAIN L.edges |-> EdgeVal(L, L.edges[i])]

RECURSIVE SelectCorners(_, _, _)
\* the points of a that are nearer than tol to the ring b, in order
SelectCorners(a, b, tol) ==
    IF a = << >> THEN << >>
    ELSE (IF NearRing(Head(a), b, tol) THEN <<Head(a)>> ELSE << >>)
         \o SelectCorners(Tail(a), b, tol)

\* find_corners() as it would be over exterior.coords with the closing
\* vertex, without the [:-1]
find_corners_WithClosingVertex(L, b, tol) ==
    [L EXCEPT !.corners = SelectCorners(L.polygon, b, tol)]

\* find_corners(bounding_polygon, tol): the layer it leaves
find_corners(L, b, tol) ==
    [L EXCEPT !.corners = SelectCorners(PySlice(L.polygon, 0, Len(L.polygon) - 1),
                                        b, tol)]

\* duplicate(e) of get_edges2
duplicate(e, tol) ==
    /\ Len(e) = 2
    /\ Abs(PX(e[1]) - PX(e[2])) < tol
    /\ Abs(PY(e[1]) - PY(e[2])) < tol

\* np.where((a==c).all(axis=1))[0][0]: the first index (0-based) of a row of
\* a equal to c; -1 when there is none (IndexError)
CornerIndex(a, c) ==
    IF \E i \in DOMAIN a : a[i] = c
    THEN MinOf({i \in DOMAIN a : a[i] = c}) - 1 ELSE -1

\* the sequence ms sorted ascending, duplicates kept: match.sort()
RECURSIVE SortInts(_)
SortInts(ms) ==
    IF ms = << >> THEN << >>
    ELSE LET m == MinOf({ms[i] : i \in DOMAIN ms})
             j == MinOf({i \in DOMAIN ms : ms[i] = m})
         IN  <<m>> \o SortInts(SubSeq(ms, 1, j - 1) \o SubSeq(ms, j + 1, Len(ms)))

RECURSIVE InnerEdges(_, _, _, _, _)
\* the edges between consecutive corners that are not duplicates, as views
\* of array k (the for loop of get_edges2)
InnerEdges(a, k, match, m, tol) ==
    IF m >= Len(match) THEN << >>
    ELSE LET e == [arr |-> k, lo |-> match[m] + 1, hi |-> match[m + 1] + 1]
         IN  (IF duplicate(SubSeq(a, e.lo, e.hi), tol) THEN << >> ELSE <<e>>)
             \o InnerEdges(a, k, match, m + 1, tol)

\* get_edges2() as it would be if only the edges of the for loop were
\* tested with duplicate(), the last edge being appended as it is
get_edges2_KeepLastEdge(L, tol) ==
    LET a == L.polygon
        n == Len(a)
        k == Len(L.arrays) + 1
        found == [i \in DOMAIN L.corners |-> CornerIndex(a, L.corners[i])]
        match == SortInts(found)
        inner == InnerEdges(a, k, match, 1, tol)
        wraps == match[1] > 0
        last_edge == IF wraps
                     THEN PySlice(a, match[Len(match)], n - 1)
                          \o PySlice(a, 0, match[1] + 1)
                     ELSE PySlice(a, match[Len(match)], n)
        keep == TRUE
    IN  IF (\E i \in DOMAIN found : found[i] < 0) \/ L.corners = << >>
        THEN [exc |-> "IndexError", L |-> L]
        ELSE [exc |-> "",
              L |-> [L EXCEPT
                  !.arrays = IF wraps /\ keep
                             THEN L.arrays \o <<a, last_edge>>
                             ELSE Append(L.arrays, a),
                  !.edges = L.edges \o inner \o
                      (IF ~keep THEN << >>
                       ELSE IF wraps
                       THEN <<[arr |-> k + 1, lo |-> 1, hi |-> Len(last_edge)]>>
                       ELSE <<[arr |-> k, lo |-> match[Len(match)] + 1,
                               hi |-> n]>>)]]

\* get_edges2(tol): [exc, L]
get_edges2(L, tol) ==
    LET a == L.polygon
        n == Len(a)
        k == Len(L.arrays) + 1
        found == [i \in DOMAIN L.corners |-> CornerIndex(a, L.corners[i])]
        match == SortInts(found)
        inner == InnerEdges(a, k, match, 1, tol)
        wraps == match[1] > 0
        last_edge == IF wraps
                     THEN PySlice(a, match[Len(match)], n - 1)
                          \o PySlice(a, 0, match[1] + 1)
                     ELSE PySlice(a, match[Len(match)], n)
        keep == ~duplicate(last_edge, tol)
    IN  IF (\E i \in DOMAIN found : found[i] < 0) \/ L.corners = << >>
        THEN [exc |-> "IndexError", L |-> L]
        ELSE [exc |-> "",
              L |-> [L EXCEPT
                  !.arrays = IF wraps /\ keep
                             THEN L.arrays \o <<a, last_edge>>
                             ELSE Append(L.arrays, a),
                  !.edges = L.edges \o inner \o
                      (IF ~keep THEN << >>
                       ELSE IF wraps
                       THEN <<[arr |-> k + 1, lo |-> 1, hi |-> Len(last_edge)]>>
                       ELSE <<[arr |-> k, lo |-> match[Len(match)] + 1,
                               hi |-> n]>>)]]

\* '{0: .8f}'.format(v): v rounded to the nearest multiple of 1e-8
Fmt8(v) == ((v + 1) \div 3) * 3

\* the lines written for one curve: its number ('#': 0) and its points
Curve(num, e) ==
    [num |-> num, pts |-> [i \in DOMAIN e |-> <<Fmt8(PX(e[i])), Fmt8(PY(e[i]))>>]]

\* write_alt_layer_edges(f): [exc, L, written]
write_alt_layer_edges(L) ==
    LET g == get_edges2(L, TolEdges2)
        ev == EdgeVals(g.L)
    IN  [exc |-> g.exc, L |-> g.L,
         written |-> IF g.exc # "" THEN << >>
                     ELSE [i \in DOMAIN ev |-> Curve(0, ev[i])]]

\* whether write_alt_layer_edges2 takes the edge e for a small edge
SmallEdge(e, tol) ==
    /\ Len(e) = 2
    /\ PX(e[1]) - PX(e[2]) < tol
    /\ PY(e[1]) - PY(e[2]) < tol

\* bad_edge of write_alt_layer_edges2: the index (1-based) of the last
\* small edge, 0 for None
BadEdge(ev, tol) ==
    IF \E i \in DOMAIN ev : SmallEdge(ev[i], tol)
    THEN CHOOSE i \in DOMAIN ev :
            /\ SmallEdge(ev[i], tol)
            /\ \A j \in DOMAIN ev : SmallEdge(ev[j], tol) => j <= i
    ELSE 0

\* self.edges.pop(i)
Pop(es, i) == SubSeq(es, 1, i - 1) \o SubSeq(es, i + 1, Len(es))

\* write_alt_layer_edges2(f, start_edge_num, tol): [exc, L, written]
write_alt_layer_edges2(L, start_edge_num, tol) ==
    LET g == get_edges2(L, TolEdges2)
        bad_edge == IF Len(g.L.edges) > 4 THEN BadEdge(EdgeVals(g.L), tol) ELSE 0
        L2 == IF bad_edge = 0 THEN g.L
              ELSE [g.L EXCEPT !.edges = Pop(@, bad_edge)]
        ev == EdgeVals(L2)
    IN  IF g.exc # "" THEN [exc |-> g.exc, L |-> g.L, written |-> << >>]
        ELSE [exc |-> "", L |-> L2,
              written |-> [i \in DOMAIN ev |->
                              Curve(start_edge_num + i - 1, ev[i])]]

----------------------------------------------------------------------------
(* Layer.write_layer_edges                                                 *)

\* the roles written, in the order they are written
RolesWritten(triangular_region) ==
    IF triangular_region THEN <<"left", "bottom", "top">>
    ELSE <<"left", "bottom", "right", "top">>

\* prefix: the class of the parent part, its number when it is a shear
\* web, an aft panel or an internal surface, and the name of the layer
Prefix(L, P) ==
    IF L.cls \in {"ShearWeb", "AftPanel", "InternalSurface"}
    THEN L.cls \o ToString(P.num) \o "; " \o L.name
    ELSE L.cls \o "; " \o L.name

RECURSIVE WriteRoles(_, _, _, _)
\* the curves of the roles order[i..] of L, numbered from n: 'curd n lp3'
\* and the points of the role; iterating over a role that is None is a
\* TypeError, after the first line of its curve was written
WriteRoles(L, order, i, n) ==
    IF i > Len(order) THEN [exc |-> "", written |-> << >>]
    ELSE IF L[order[i]] = None
    THEN [exc |-> "TypeError", written |-> <<Curve(n, << >>)>>]
    ELSE Only({ [exc |-> r.exc,
                 written |-> <<Curve(n, L[order[i]])>> \o r.written]
                : r \in {WriteRoles(L, order, i + 1, n + 1)} })

\* write_layer_edges() as it would be with the top edge written before the
\* right edge
write_layer_edges_TopBeforeRight(L, P, start_edge_num, triangular_region) ==
    Only({ Only({ [exc |-> w.exc, written |-> w.written,
                   ret |-> IF w.exc # "" THEN None
                           ELSE [key \in {Prefix(L, P) \o "; " \o order[i] :
                                               i \in DOMAIN order}
                                   |-> start_edge_num - 1
                                       + CHOOSE i \in DOMAIN order :
                                           key = Prefix(L, P) \o "; " \o order[i]]]
                  : w \in {WriteRoles(L, IF triangular_region THEN order
                                      ELSE <<"left", "bottom", "top", "right">>, 1, start_edge_num)} })
           : order \in {RolesWritten(triangular_region)} })

\* write_layer_edges(f, start_edge_num, triangular_region): [exc, written,
\* ret], written the curves put into f and ret the dictionary d
write_layer_edges(L, P, start_edge_num, triangular_region) ==
    Only({ Only({ [exc |-> w.exc, written |-> w.written,
                   ret |-> IF w.exc # "" THEN None
                           ELSE [key \in {Prefix(L, P) \o "; " \o order[i] :
                                               i \in DOMAIN order}
                                   |-> start_edge_num - 1
                                       + CHOOSE i \in DOMAIN order :
                                           key = Prefix(L, P) \o "; " \o order[i]]]
                  : w \in {WriteRoles(L, order, 1, start_edge_num)} })
           : order \in {RolesWritten(triangular_region)} })

----------------------------------------------------------------------------
(* Layer.move                                                              *)

\* how many of the edges es are views of row r of array k
Covering(es, k, r) ==
    Cardinality({i \in DOMAIN es :
                    es[i].arr = k /\ es[i].lo <= r /\ r <= es[i].hi})

\* for edge in self.edges: edge[:,1] += x3_offset, each edge a view
ShiftEdges(L, x3_offset) ==
    [L EXCEPT !.arrays =
        [k \in DOMAIN L.arrays |->
            [r \in DOMAIN L.arrays[k] |->
                << PX(L.arrays[k][r]),
                   PY(L.arrays[k][r]) + x3_offset * Covering(L.edges, k, r) >>]]]

\* move(x3_offset, alt_layer): [exc, L]
move(L, P, sharp, x3_offset, alt_layer) ==
    LET L1 == [L EXCEPT !.polygon = Translate(@, x3_offset),
                        !.corners = Translate(@, x3_offset)]
    IN  IF ~alt_layer THEN get_and_save_edges(L1, P, sharp)
        ELSE [exc |-> "", L |-> ShiftEdges(L1, x3_offset)]

----------------------------------------------------------------------------
(* The layers the model is run on: one record per layer, with the fields   *)
(* of its parent part that get_edges() reads and the vertices of its       *)
(* polygon's exterior ring (closing vertex left out).  Every segment has   *)
(* an integer length.                                                      *)

NoPart ==
    [left |-> 0, right |-> 0, base_biax |-> 0, left_vertex |-> 0,
     foam_left_vertex |-> 0, uniax_left_vertex |-> 0, uniax_right_vertex |-> 0,
     num |-> 0]

Scenario(cls, name, P, sharp, verts) ==
    [cls |-> cls, name |-> name, part |-> P, sharp |-> sharp, verts |-> verts]

Rect(x0, y0, x1, y1) == << <<x0, y0>>, <<x1, y0>>, <<x1, y1>>, <<x0, y1>> >>

Scenarios == <<
    \* spar cap, lower surface, bulging downwards
    Scenario("SparCap", "lower", [NoPart EXCEPT !.left = -40, !.right = 40], FALSE,
        << <<-40, 0>>, <<-16, -10>>, <<8, 0>>, <<40, 0>>, <<40, 36>>, <<-40, 36>> >>),
    \* spar cap, upper surface, bulging upwards, with a fifth vertex on its
    \* left side
    Scenario("SparCap", "upper", [NoPart EXCEPT !.left = -40, !.right = 40], FALSE,
        << <<8, 72>>, <<-16, 82>>, <<-40, 72>>, <<-40, 36>>, <<-40, 0>>,
           <<40, 0>>, <<40, 72>> >>),
    Scenario("AftPanel", "upper",
        [NoPart EXCEPT !.left = 50, !.right = 90, !.num = 1], FALSE,
        Rect(50, 40, 90, 72)),
    Scenario("ShearWeb", "biax, left",
        [NoPart EXCEPT !.left = 0, !.right = 100, !.base_biax = 32, !.num = 1],
        FALSE,
        Rect(0, -40, 32, 40)),
    Scenario("ShearWeb", "foam",
        [NoPart EXCEPT !.left = 0, !.right = 100, !.base_biax = 32, !.num = 1],
        FALSE,
        Rect(32, -40, 68, 40)),
    \* LE panel: a C open to the right, its four corners on x = right
    Scenario("LE_Panel", "foam", [NoPart EXCEPT !.right = 0], FALSE,
        << <<0, 60>>, <<-60, 60>>, <<-60, -60>>, <<0, -60>>,
           <<0, -28>>, <<-28, -28>>, <<-28, 28>>, <<0, 28>> >>),
    \* TE reinforcement: a C open to the left, its four corners on x = left
    Scenario("TE_Reinforcement", "uniax", [NoPart EXCEPT !.left = 40], FALSE,
        << <<40, -60>>, <<100, -60>>, <<100, 60>>, <<40, 60>>,
           <<40, 28>>, <<68, 28>>, <<68, -28>>, <<40, -28>> >>),
    \* alternate layers of the TE reinforcement: a rectangle, a triangle
    Scenario("TE_Reinforcement", "uniax, upper left",
        [NoPart EXCEPT !.left = 40, !.left_vertex = 40, !.foam_left_vertex = 72],
        FALSE, Rect(40, 28, 72, 60)),
    Scenario("TE_Reinforcement", "uniax, upper right",
        [NoPart EXCEPT !.left = 40, !.uniax_left_vertex = 60,
                       !.uniax_right_vertex = 100],
        FALSE, << <<60, -30>>, <<100, 0>>, <<60, 30>> >>),
    \* root buildup quadrants: corners on x = 0 and on y = 0
    Scenario("RootBuildup", "triax, lower left", NoPart, FALSE,
        << <<-60, 0>>, <<-60, -60>>, <<0, -60>>, <<0, -28>>, <<-28, -28>>,
           <<-28, 0>> >>),
    Scenario("RootBuildup", "triax, upper right", NoPart, FALSE,
        << <<60, 0>>, <<60, 60>>, <<0, 60>>, <<0, 28>>, <<28, 28>>, <<28, 0>> >>),
    Scenario("RootBuildup", "triax, upper left", NoPart, FALSE,
        << <<0, 60>>, <<-60, 60>>, <<-60, 0>>, <<-28, 0>>, <<-28, 28>>,
           <<0, 28>> >>),
    Scenario("RootBuildup", "triax, lower right", NoPart, FALSE,
        << <<0, -60>>, <<60, -60>>, <<60, 0>>, <<28, 0>>, <<28, -28>>,
           <<0, -28>> >>),
    \* external surface, blunt and sharp trailing edge
    Scenario("ExternalSurface", "gelcoat", NoPart, FALSE,
        << <<60, 0>>, <<60, 40>>, <<0, 40>>, <<-60, 40>>, <<-60, 0>>,
           <<-60, -40>>, <<0, -40>>, <<60, -40>> >>),
    Scenario("ExternalSurface", "gelcoat", NoPart, TRUE,
        << <<60, 0>>, <<0, 40>>, <<-60, 40>>, <<-60, -40>>, <<0, -40>> >>),
    Scenario("InternalSurface", "triax", [NoPart EXCEPT !.num = 1], FALSE,
        Rect(-30, -30, 30, 30)),
    \* alternate layers cut by a bounding polygon: two corners 2 units
    \* (less than 1e-8) apart; two corners 10 units (less than 1e-7) apart
    Scenario("TE_Reinforcement", "foam, middle",
        [NoPart EXCEPT !.left = 40, !.foam_left_vertex = 40,
                       !.uniax_left_vertex = 80],
        FALSE, << <<40, 0>>, <<80, 0>>, <<80, 40>>, <<42, 40>>, <<40, 40>> >>),
    \* the same ring, starting at the second of the two close corners
    Scenario("TE_Reinforcement", "foam, middle",
        [NoPart EXCEPT !.left = 40, !.foam_left_vertex = 40,
                       !.uniax_left_vertex = 80],
        FALSE, << <<40, 40>>, <<40, 0>>, <<80, 0>>, <<80, 40>>, <<42, 40>> >>),
    Scenario("AftPanel", "foam, upper",
        [NoPart EXCEPT !.left = 40, !.right = 80, !.num = 1], FALSE, << <<40, 0>>, <<80, 0>>, <<80, 40>>, <<50, 40>>, <<40, 40>> >>),
    \* the same with a second pair of corners 10 units apart
    Scenario("AftPanel", "foam, lower",
        [NoPart EXCEPT !.left = 40, !.right = 80, !.num = 2], FALSE, << <<40, 0>>, <<80, 0>>, <<80, 30>>, <<80, 40>>, <<50, 40>>,
                  <<40, 40>> >>)
  >>

\* the bounding polygons find_corners() is called with (exterior rings,
\* closing vertex included)
Ring(verts) == Append(verts, verts[1])

BoundingPolygons == <<
    Ring(Rect(40, -100, 80, 100)),
    Ring(Rect(40, -10, 80, 40)),
    Ring(Rect(-40, -100, 40, 100)),
    \* its sides 3 units (1e-8) off the vertices with x = 40 and x = 80
    Ring(Rect(43, -100, 83, 100))
  >>

\* the ring that starts k vertices further on
Rotate(verts, k) == SubSeq(verts, k + 1, Len(verts)) \o SubSeq(verts, 1, k)

\* Layer.__init__
NewLayer(cls, name, polygon) ==
    [cls |-> cls, name |-> name, polygon |-> polygon,
     left |-> None, top |-> None, right |-> None, bottom |-> None,
     corners |-> << >>, arrays |-> << >>, edges |-> << >>]

NoCall == [op |-> "", x3_offset |-> 0, alt_layer |-> FALSE, b |-> 0,
           start_edge_num |-> 0, triangular_region |-> FALSE]

\* the vertical offsets move() is called with, up and down
DY == 50

\* the first curve number write_alt_layer_edges2() is called with
StartEdgeNum == 7

----------------------------------------------------------------------------
(* The Layer object: construction and one action per method.               *)

\* one more call, within the model's cap
Call == calls < MaxCalls /\ calls' = calls + 1

Init ==
    \E i \in DOMAIN Scenarios, k \in 0..MaxRot :
        LET sc == Scenarios[i]
        IN  /\ k < Len(sc.verts)
            /\ layer = NewLayer(sc.cls, sc.name, Ring(Rotate(sc.verts, k)))
            /\ part = sc.part
            /\ sharp_TE = sc.sharp
            /\ last = NoCall
            /\ exc = ""
            /\ ret = None
            /\ prev = layer
            /\ written = << >>
            /\ calls = 0
            /\ obj = None

GetAndSaveEdges ==
    \E r \in {get_and_save_edges(layer, part, sharp_TE)} :
        /\ Call
        /\ layer' = r.L
        /\ exc' = r.exc
        /\ last' = [NoCall EXCEPT !.op = "get_and_save_edges"]
        /\ prev' = layer
        /\ written' = << >>
        /\ ret' = None
        /\ UNCHANGED <<part, sharp_TE, obj>>

FindCorners ==
    \E b \in DOMAIN BoundingPolygons :
        /\ Call
        /\ layer' = find_corners(layer, BoundingPolygons[b], TolCorners)
        /\ exc' = ""
        /\ last' = [NoCall EXCEPT !.op = "find_corners", !.b = b]
        /\ prev' = layer
        /\ written' = << >>
        /\ ret' = None
        /\ UNCHANGED <<part, sharp_TE, obj>>

GetEdges2 ==
    LET r == get_edges2(layer, TolEdges2)
    IN  /\ Call
        /\ layer' = r.L
        /\ exc' = r.exc
        /\ last' = [NoCall EXCEPT !.op = "get_edges2"]
        /\ prev' = layer
        /\ written' = << >>
        /\ ret' = None
        /\ UNCHANGED <<part, sharp_TE, obj>>

WriteAltLayerEdges ==
    LET r == write_alt_layer_edges(layer)
    IN  /\ Call
        /\ layer' = r.L
        /\ exc' = r.exc
        /\ last' = [NoCall EXCEPT !.op = "write_alt_layer_edges"]
        /\ prev' = layer
        /\ written' = r.written
        /\ ret' = None
        /\ UNCHANGED <<part, sharp_TE, obj>>

WriteAltLayerEdges2 ==
    LET r == write_alt_layer_edges2(layer, StartEdgeNum, TolWrite2)
    IN  /\ Call
        /\ layer' = r.L
        /\ exc' = r.exc
        /\ last' = [NoCall EXCEPT !.op = "write_alt_layer_edges2",
                                  !.start_edge_num = StartEdgeNum]
        /\ prev' = layer
        /\ written' = r.written
        /\ ret' = None
        /\ UNCHANGED <<part, sharp_TE, obj>>

Move ==
    \E x3_offset \in {-DY, DY}, alt_layer \in BOOLEAN :
        LET r == move(layer, part, sharp_TE, x3_offset, alt_layer)
        IN  /\ Call
            /\ layer' = r.L
            /\ exc' = r.exc
            /\ last' = [NoCall EXCEPT !.op = "move", !.x3_offset = x3_offset,
                                      !.alt_layer = alt_layer]
            /\ prev' = layer
            /\ written' = << >>
            /\ ret' = None
            /\ UNCHANGED <<part, sharp_TE, obj>>

WriteLayerEdges ==
    \E triangular_region \in BOOLEAN :
        \E r \in {write_layer_edges(layer, part, StartEdgeNum, triangular_region)} :
            /\ Call
            /\ exc' = r.exc
            /\ ret' = r.ret
            /\ written' = r.written
            /\ last' = [NoCall EXCEPT !.op = "write_layer_edges",
                                      !.start_edge_num = StartEdgeNum,
                                      !.triangular_region = triangular_region]
            /\ prev' = layer
            /\ UNCHANGED <<layer, part, sharp_TE, obj>>

Next ==
    \/ GetAndSaveEdges
    \/ FindCorners
    \/ GetEdges2
    \/ WriteAltLayerEdges
    \/ WriteAltLayerEdges2
    \/ WriteLayerEdges
    \/ Move

Spec == Init /\ [][Next]_vars

----------------------------------------------------------------------------
(* scripts/structure.py: the Part classes.  A dimension is a float <<v>> or *)
(* NaN; an object has the fields of every class, the fields its own class  *)
(* does not set being NaN here.                                            *)

isnan(v) == v = NaN

\* a + b on floats: NaN when either is NaN
FAdd(a, b) == IF isnan(a) \/ isnan(b) THEN NaN ELSE <<a[1] + b[1]>>

\* c * a, c a number
FScale(c, a) == IF isnan(a) THEN NaN ELSE <<c * a[1]>>

NoDims ==
    [base_biax |-> NaN, base_foam |-> NaN, x2 |-> NaN, height_uniax |-> NaN,
     height_foam |-> NaN, height_triax |-> NaN, height_resin |-> NaN,
     height_gelcoat |-> NaN]

\* Part.__init__(base, height)
Part(base, height) ==
    [cls |-> "Part", base |-> base, height |-> height, dims |-> NoDims]

\* ShearWeb.__init__(base_biax, base_foam, x2, height=np.nan)
ShearWeb(base_biax, base_foam, x2) ==
    [cls |-> "ShearWeb", base |-> FAdd(FScale(2, base_biax), base_foam),
     height |-> NaN,
     dims |-> [NoDims EXCEPT !.base_biax = base_biax, !.base_foam = base_foam,
                             !.x2 = x2]]

\* TE_Reinforcement.__init__(base, height_uniax, height_foam)
TE_Reinforcement(base, height_uniax, height_foam) ==
    [cls |-> "TE_Reinforcement", base |-> base,
     height |-> FAdd(height_uniax, height_foam),
     dims |-> [NoDims EXCEPT !.height_uniax = height_uniax,
                             !.height_foam = height_foam]]

\* InternalSurface.__init__(base, height_triax, height_resin)
InternalSurface(base, height_triax, height_resin) ==
    [cls |-> "InternalSurface", base |-> base,
     height |-> FAdd(height_triax, height_resin),
     dims |-> [NoDims EXCEPT !.height_triax = height_triax,
                             !.height_resin = height_resin]]

\* ExternalSurface.__init__(base, height_triax, height_gelcoat)
ExternalSurface(base, height_triax, height_gelcoat) ==
    [cls |-> "ExternalSurface", base |-> base,
     height |-> FAdd(height_triax, height_gelcoat),
     dims |-> [NoDims EXCEPT !.height_triax = height_triax,
                             !.height_gelcoat = height_gelcoat]]

\* Part.exists()
exists(o) == ~(isnan(o.base) /\ isnan(o.height))

\* the dimensions a part is constructed with
Dims == {NaN, <<2>>}

\* the x2 a shear web is constructed with
X2 == 7

\* every object the five constructors make of the dimensions Dims
Parts ==
    {Part(b, h) : b \in Dims, h \in Dims}
    \cup {ShearWeb(bb, bf, <<X2>>) : bb \in Dims, bf \in Dims}
    \cup UNION {{TE_Reinforcement(b, h1, h2), InternalSurface(b, h1, h2),
                 ExternalSurface(b, h1, h2)} : b \in Dims, h1 \in Dims,
                                                h2 \in Dims}

----------------------------------------------------------------------------
(* lib/station.py: MonoplaneStation.  A polygon is a tuple that names it,  *)
(* <<"entire TE">>; what the polygon kernel makes of polygons is the tuple *)
(* of the operation and its operands.                                      *)

\* airfoil_cutout.intersection(bounding_box), of which the kernel finds the
\* polygons polys (in its order): one polygon is a Polygon, several are a
\* MultiPolygon, none is an empty GeometryCollection
Intersection(polys) ==
    [type |-> IF Len(polys) = 1 THEN "Polygon"
              ELSE IF Len(polys) = 0 THEN "GeometryCollection"
              ELSE "MultiPolygon",
     geoms |-> polys]

\* cut_out_part() as it would be with len(p4.geoms) >= 2 for its test
cut_out_part_TwoOrMore(p4) ==
    IF p4.type = "Polygon"
    THEN [exc |-> "", ret |-> {<<"single part", p4.geoms[1]>>}]
    ELSE IF Len(p4.geoms) >= 2
    THEN [exc |-> "", ret |-> {<<"lower part", p4.geoms[1]>>,
                               <<"upper part", p4.geoms[2]>>}]
    ELSE [exc |-> "NotImplementedError", ret |-> None]

\* cut_out_part(airfoil_cutout, bounding_box), p4 their intersection:
\* [exc, ret], ret the dict as a set of <<key, polygon>>
cut_out_part(p4) ==
    IF p4.type = "Polygon"
    THEN [exc |-> "", ret |-> {<<"single part", p4.geoms[1]>>}]
    ELSE IF Len(p4.geoms) = 2
    THEN [exc |-> "", ret |-> {<<"lower part", p4.geoms[1]>>,
                               <<"upper part", p4.geoms[2]>>}]
    ELSE [exc |-> "NotImplementedError", ret |-> None]

\* the name of the profile the uniax thickness is eroded from
InnerProfileName(es_exists, rb_exists) ==
    IF es_exists
    THEN (IF rb_exists THEN "(airfoil) - (external surface) - (root buildup)"
          ELSE "(airfoil) - (external surface)")
    ELSE (IF rb_exists THEN "(airfoil) - (root buildup)" ELSE "airfoil")

\* get_foam_and_uniax_regions_of_TE_reinf() as it would be with the two
\* single-material branches assigning the entire region to the other key
get_foam_and_uniax_regions_of_TE_reinf_Swapped(TE, entire_region, es_exists, rb_exists) ==
    LET hf == TE.dims.height_foam
        hu == TE.dims.height_uniax
        ip == <<"buffer", InnerProfileName(es_exists, rb_exists), -hu[1]>>
    IN  IF isnan(hf) /\ isnan(hu)
        THEN ("uniax region" :> None) @@ ("foam region" :> None)
        ELSE IF isnan(hf)
        THEN ("uniax region" :> None) @@ ("foam region" :> entire_region)
        ELSE IF isnan(hu)
        THEN ("uniax region" :> entire_region) @@ ("foam region" :> None)
        ELSE ("uniax region" :> <<"difference", entire_region, ip>>)
             @@ ("foam region" :> <<"intersection", entire_region, ip>>)

\* get_foam_and_uniax_regions_of_TE_reinf(entire_region): the dict d
get_foam_and_uniax_regions_of_TE_reinf(TE, entire_region, es_exists, rb_exists) ==
    LET hf == TE.dims.height_foam
        hu == TE.dims.height_uniax
        ip == <<"buffer", InnerProfileName(es_exists, rb_exists), -hu[1]>>
    IN  IF isnan(hf) /\ isnan(hu)
        THEN ("uniax region" :> None) @@ ("foam region" :> None)
        ELSE IF isnan(hf)
        THEN ("uniax region" :> entire_region) @@ ("foam region" :> None)
        ELSE IF isnan(hu)
        THEN ("uniax region" :> None) @@ ("foam region" :> entire_region)
        ELSE ("uniax region" :> <<"difference", entire_region, ip>>)
             @@ ("foam region" :> <<"intersection", entire_region, ip>>)

\* area_threshold=10e-06 of get_interior_loop(), areas in units of 1e-6
AreaThreshold == 10

RECURSIVE GoodLoops(_, _)
\* the interior rings with a 'big' area, in the order of p.interiors
GoodLoops(interiors, area_threshold) ==
    IF interiors = << >> THEN << >>
    ELSE (IF Head(interiors).area > area_threshold
          THEN <<Head(interiors)>> ELSE << >>)
         \o GoodLoops(Tail(interiors), area_threshold)

\* ring r put into the sorted sequence ss behind every ring whose
\* centroid.x is not greater
InsertLoop(r, ss) ==
    LET n == Cardinality({i \in DOMAIN ss : ss[i].cx <= r.cx})
    IN  SubSeq(ss, 1, n) \o <<r>> \o SubSeq(ss, n + 1, Len(ss))

RECURSIVE SortLoops(_)
\* good_loops.sort(key=attrgetter('centroid.x')): ascending and stable
SortLoops(loops) ==
    IF loops = << >> THEN << >>
    ELSE Only({ InsertLoop(loops[Len(loops)], ss) :
                ss \in {SortLoops(SubSeq(loops, 1, Len(loops) - 1))} })

\* get_interior_loop() as it would be without the sort
get_interior_loop_NoSort(interiors, internal_surface_num, area_threshold) ==
    Only({ IF internal_surface_num > Len(good_loops)
           THEN [exc |-> "IndexError", ret |-> None]
           ELSE [exc |-> "", ret |-> good_loops[internal_surface_num]]
           : good_loops \in {GoodLoops(interiors, area_threshold)} })

\* get_interior_loop(internal_surface_num), interiors the interior rings of
\* the merged parts in the kernel's order: [exc, ret]
get_interior_loop(interiors, internal_surface_num, area_threshold) ==
    Only({ IF internal_surface_num > Len(good_loops)
           THEN [exc |-> "IndexError", ret |-> None]
           ELSE [exc |-> "", ret |-> good_loops[internal_surface_num]]
           : good_loops \in { IF Len(g) > 1 THEN SortLoops(g) ELSE g :
                              g \in {GoodLoops(interiors, area_threshold)} } })

----------------------------------------------------------------------------
(* lib/poly_utils.py: cut_polygon.  A geometry is its geom_type and, where *)
(* it is a collection, its members in the kernel's order; a member is a    *)
(* record of its name (id) and its area.  A geometry of one part (Polygon, *)
(* LineString, Point) has no attribute geoms; the one polygon of a Polygon *)
(* is kept in the field poly.                                              *)

\* area_threshold=1.0e-08 of cut_polygon(), areas in units of 1e-9
CutAreaThreshold == 10

\* a Polygon, a collection (MultiPolygon, GeometryCollection), a geometry
\* of one part that is no polygon (LineString, Point), and the intersection
\* that raises
PolygonGeometry(p) == [geom_type |-> "Polygon", poly |-> p, geoms |-> << >>]
Collection(geom_type, members) ==
    [geom_type |-> geom_type, poly |-> None, geoms |-> members]
has_geoms(g) == g.geom_type \in {"MultiPolygon", "GeometryCollection"}

\* the indices of the members of g whose area is above the threshold
GoodPolys(g, area_threshold) ==
    {i \in DOMAIN g.geoms : g.geoms[i].area > area_threshold}

\* cut_polygon(original, bounding, ext_label, area_threshold), p_new what
\* original.intersection(bounding) gives: [exc, ret].  good_poly_index is
\* the index of the one good polygon, or None (TypeError, turned into
\* Warning) when there is none
cut_polygon(p_new, area_threshold) ==
    IF p_new.geom_type = "raises" THEN [exc |-> "Warning", ret |-> None]
    ELSE IF p_new.geom_type = "Polygon" THEN [exc |-> "", ret |-> p_new.poly]
    ELSE IF ~has_geoms(p_new) THEN [exc |-> "AttributeError", ret |-> None]
    ELSE LET good == GoodPolys(p_new, area_threshold)
         IN  IF Cardinality(good) > 1 THEN [exc |-> "Warning", ret |-> None]
             ELSE IF good = {} THEN [exc |-> "Warning", ret |-> None]
             ELSE [exc |-> "", ret |-> p_new.geoms[CHOOSE i \in good : TRUE]]

----------------------------------------------------------------------------
(* The station: a part of its structure (obj) and one action per method.   *)

\* polygons the kernel finds in one intersection, at most
MaxPolys == 3
\* interior rings of the merged parts, at most
MaxLoops == 3
\* internal surfaces 1, 2, 3, or 4 of a station
InternalSurfaces == 4

\* the sequences of at most n elements of S, none twice
DistinctSeqs(S, n) ==
    UNION {{f \in [1..m -> S] : \A i, j \in 1..m : f[i] = f[j] => i = j}
           : m \in 0..n}

\* interior rings: two cells side by side, a ring over the first cell with
\* the same centroid.x, and a sliver whose area is the threshold exactly
Loops ==
    {[id |-> 1, area |-> 300, cx |-> 10], [id |-> 2, area |-> 200, cx |-> -30],
     [id |-> 3, area |-> 150, cx |-> 10], [id |-> 4, area |-> 10, cx |-> -50]}

\* what a layer polygon cut by a bounding polygon may fall into: two big
\* pieces, a sliver whose area is the threshold exactly, a smaller sliver
\* and a line (area 0.0)
Pieces ==
    {[id |-> 1, area |-> 300], [id |-> 2, area |-> 200],
     [id |-> 3, area |-> 10], [id |-> 4, area |-> 1], [id |-> 5, area |-> 0]}

\* what original.intersection(bounding) may give
Geometries ==
    {PolygonGeometry(p) : p \in {q \in Pieces : q.area > 0}}
    \cup {Collection("MultiPolygon", ms) :
            ms \in {m \in DistinctSeqs({q \in Pieces : q.area > 0}, MaxPolys) :
                        Len(m) >= 2}}
    \cup {Collection("GeometryCollection", ms) :
            ms \in {m \in DistinctSeqs(Pieces, 2) :
                        m = << >> \/ \E i \in DOMAIN m : m[i].area = 0}}
    \cup {Collection("LineString", << >>), Collection("Point", << >>),
          Collection("raises", << >>)}

NoStationCall == [op |-> "", args |-> << >>]

InitStation ==
    /\ obj \in Parts
    /\ ret = None
    /\ exc = ""
    /\ last = NoStationCall
    /\ layer = None
    /\ prev = None
    /\ part = NoPart
    /\ sharp_TE = FALSE
    /\ written = << >>
    /\ calls = 0

Exists ==
    /\ ret' = exists(obj)
    /\ exc' = ""
    /\ last' = [op |-> "exists", args |-> << >>]
    /\ UNCHANGED <<obj, layer, prev, part, sharp_TE, written, calls>>

CutOutPart ==
    \E polys \in DistinctSeqs(1..MaxPolys, MaxPolys) :
        \E r \in {cut_out_part(Intersection(polys))} :
            /\ ret' = r.ret
            /\ exc' = r.exc
            /\ last' = [op |-> "cut_out_part", args |-> <<polys>>]
            /\ UNCHANGED <<obj, layer, prev, part, sharp_TE, written, calls>>

GetFoamAndUniaxRegions ==
    \E es_exists \in BOOLEAN, rb_exists \in BOOLEAN :
        /\ obj.cls = "TE_Reinforcement"
        /\ ret' = get_foam_and_uniax_regions_of_TE_reinf(
                      obj, <<"entire TE">>, es_exists, rb_exists)
        /\ exc' = ""
        /\ last' = [op |-> "get_foam_and_uniax_regions_of_TE_reinf",
                    args |-> <<es_exists, rb_exists>>]
        /\ UNCHANGED <<obj, layer, prev, part, sharp_TE, written, calls>>

GetInteriorLoop ==
    \E interiors \in DistinctSeqs(Loops, MaxLoops),
       internal_surface_num \in 1..InternalSurfaces :
        \E r \in {get_interior_loop(interiors, internal_surface_num,
                                    AreaThreshold)} :
            /\ ret' = r.ret
            /\ exc' = r.exc
            /\ last' = [op |-> "get_interior_loop",
                        args |-> <<interiors, internal_surface_num>>]
            /\ UNCHANGED <<obj, layer, prev, part, sharp_TE, written, calls>>

CutPolygon ==
    \E p_new \in Geometries :
        \E r \in {cut_polygon(p_new, CutAreaThreshold)} :
            /\ ret' = r.ret
            /\ exc' = r.exc
            /\ last' = [op |-> "cut_polygon", args |-> <<p_new>>]
            /\ UNCHANGED <<obj, layer, prev, part, sharp_TE, written, calls>>

NextStation ==
    \/ Exists
    \/ CutOutPart
    \/ GetFoamAndUniaxRegions
    \/ GetInteriorLoop
    \/ CutPolygon

SpecStation == InitStation /\ [][NextStation]_vars

----------------------------------------------------------------------------
(* lib/station.py: a station with its airfoil and its structure.  The      *)
(* object graph is kept flat: S.st[n] is the part st.<n> as its constructor *)
(* made it, S.left[n] and S.right[n] are the attributes st.<n>.left and    *)
(* st.<n>.right, and S.polygon[n] holds the polygon attributes of st.<n>.  *)
(* Lengths along the chord are even integers and a fraction of the chord   *)
(* (pitch axis, shear-web reference point) is given in quarters, so that   *)
(* the products and the halves of find_part_edges() are exact.             *)

\* -a, a - b and a/2.0 on floats
FNeg(a) == IF isnan(a) THEN NaN ELSE <<-a[1]>>
FSub(a, b) == FAdd(a, FNeg(b))
FHalf(a) == IF isnan(a) THEN NaN ELSE <<a[1] \div 2>>

\* fraction*chord, the fraction q/4
FracOf(q, chord) == <<(q * chord) \div 4>>

\* the parts find_part_edges() gives a left and a right edge
EdgeParts ==
    {"spar_cap", "TE_reinforcement", "shear_web_1", "shear_web_2",
     "shear_web_3", "LE_panel", "aft_panel_1", "aft_panel_2"}

\* the parts of the structure of one airfoil
PartNames ==
    EdgeParts \cup {"root_buildup", "external_surface", "internal_surface_1",
                    "internal_surface_2", "internal_surface_3",
                    "internal_surface_4"}

\* the parts of a station: those of its airfoil (monoplane), or of its
\* upper and of its lower airfoil (biplane)
StationParts(type) ==
    IF type = "monoplane" THEN PartNames
    ELSE {"upper_" \o n : n \in PartNames} \cup {"lower_" \o n : n \in PartNames}

\* a part as the structure is constructed with it: no left and right yet
Unset(names) == [n \in names |-> None]

\* the polygon attributes of the parts: none is assigned before
\* create_polygons()
NoPolygons == [k \in {} |-> None]

----------------------------------------------------------------------------
(* find_part_edges().  The method runs as a sequence of steps over a       *)
(* record s of the left and right attributes written so far (s.left,       *)
(* s.right) and the exception raised (s.exc); a step after an exception    *)
(* does nothing.  The parts of one airfoil are named pre \o <name>, the    *)
(* reference point of its shear webs is refpt, its leading edge lies at    *)
(* refpt - f and its chord is c: in a monoplane station pre is empty,      *)
(* refpt is 0 and f is pitch_axis*chord.                                   *)

\* if st.spar_cap.exists(): left and right, half the base to either side
StepSparCap(s0, st, n, refpt) ==
    Only({ IF s.exc # "" \/ ~exists(st[n]) THEN s
           ELSE [s EXCEPT !.left[n] = FSub(refpt, FHalf(st[n].base)),
                          !.right[n] = FAdd(refpt, FHalf(st[n].base))]
           : s \in {s0} })

\* if st.TE_reinforcement.exists(): right at the trailing edge
StepTEReinforcement(s0, st, n, refpt, f, c) ==
    Only({ IF s.exc # "" \/ ~exists(st[n]) THEN s
           ELSE [s EXCEPT !.left[n] = FSub(FAdd(FSub(refpt, f), c), st[n].base),
                          !.right[n] = FAdd(FSub(refpt, f), c)]
           : s \in {s0} })

\* if st.shear_web_1.exists(): x2 is its right edge
StepShearWeb1(s0, st, n, refpt) ==
    Only({ IF s.exc # "" \/ ~exists(st[n]) THEN s
           ELSE [s EXCEPT !.right[n] = FAdd(refpt, st[n].dims.x2),
                          !.left[n] = FSub(FAdd(refpt, st[n].dims.x2), st[n].base)]
           : s \in {s0} })

\* if st.shear_web_2.exists() and if st.shear_web_3.exists(): x2 is the
\* left edge
StepShearWeb(s0, st, n, refpt) ==
    Only({ IF s.exc # "" \/ ~exists(st[n]) THEN s
           ELSE [s EXCEPT !.left[n] = FAdd(refpt, st[n].dims.x2),
                          !.right[n] = FAdd(FAdd(refpt, st[n].dims.x2), st[n].base)]
           : s \in {s0} })

\* st.<n>.<side> = the edge cands[i][2] of the first part cands[i][1] that
\* exists; np.nan and a Warning when none does
StepNeighbour(s0, st, n, side, cands) ==
    Only({ IF s.exc # "" THEN s
           ELSE IF \E i \in DOMAIN cands : exists(st[cands[i][1]])
           THEN LET c == cands[MinOf({i \in DOMAIN cands : exists(st[cands[i][1]])})]
                IN  [s EXCEPT ![side][n] = s[c[2]][c[1]]]
           ELSE [s EXCEPT ![side][n] = NaN, !.exc = "Warning"]
           : s \in {s0} })

\* if st.LE_panel.exists(): left at the leading edge, right at shear web 1
\* or else at the spar cap
StepLEPanel(s0, st, pre, refpt, f) ==
    Only({ IF s.exc # "" \/ ~exists(st[pre \o "LE_panel"]) THEN s
           ELSE StepNeighbour(
                    [s EXCEPT !.left[pre \o "LE_panel"] = FSub(refpt, f)],
                    st, pre \o "LE_panel", "right",
                    << <<pre \o "shear_web_1", "left">>,
                       <<pre \o "spar_cap", "left">> >>)
           : s \in {s0} })

\* if st.aft_panel_1.exists(): between shear web 2 (or the spar cap) and
\* shear web 3 (or the TE reinforcement)
StepAftPanel1(s0, st, pre) ==
    Only({ IF s.exc # "" \/ ~exists(st[pre \o "aft_panel_1"]) THEN s
           ELSE StepNeighbour(
                    StepNeighbour(s, st, pre \o "aft_panel_1", "left",
                        << <<pre \o "shear_web_2", "right">>,
                           <<pre \o "spar_cap", "right">> >>),
                    st, pre \o "aft_panel_1", "right",
                    << <<pre \o "shear_web_3", "left">>,
                       <<pre \o "TE_reinforcement", "left">> >>)
           : s \in {s0} })

\* if st.aft_panel_2.exists(): between shear web 3 and the TE reinforcement
StepAftPanel2(s0, st, pre) ==
    Only({ IF s.exc # "" \/ ~exists(st[pre \o "aft_panel_2"]) THEN s
           ELSE StepNeighbour(
                    StepNeighbour(s, st, pre \o "aft_panel_2", "left",
                        << <<pre \o "shear_web_3", "right">> >>),
                    st, pre \o "aft_panel_2", "right",
                    << <<pre \o "TE_reinforcement", "left">> >>)
           : s \in {s0} })

\* the edges of the parts of one airfoil
find_airfoil_part_edges(s0, st, pre, refpt, f, c) ==
    StepAftPanel2(
        StepAftPanel1(
            StepLEPanel(
                StepShearWeb(
                    StepShearWeb(
                        StepShearWeb1(
                            StepTEReinforcement(
                                StepSparCap(s0, st, pre \o "spar_cap", refpt),
                                st, pre \o "TE_reinforcement", refpt, f, c),
                            st, pre \o "shear_web_1", refpt),
                        st, pre \o "shear_web_2", refpt),
                    st, pre \o "shear_web_3", refpt),
                st, pre, refpt, f),
            st, pre),
        st, pre)

\* upper_refpt and lower_refpt of BiplaneStation.find_part_edges()
upper_refpt(af) ==
    FAdd(FNeg(FracOf(af.pitch_axis, af.total_chord)),
         FracOf(af.upper_SW_ref_pt_fraction, af.upper_chord))
lower_refpt(af) ==
    FAdd(FAdd(FNeg(FracOf(af.pitch_axis, af.total_chord)), <<af.stagger>>),
         FracOf(af.lower_SW_ref_pt_fraction, af.lower_chord))

\* find_part_edges() of a monoplane and of a biplane station S: [exc, S]
find_part_edges(S) ==
    Only({ [exc |-> s.exc, S |-> [S EXCEPT !.left = s.left, !.right = s.right]] :
           s \in { IF S.type = "monoplane"
                   THEN find_airfoil_part_edges(
                            [left |-> S.left, right |-> S.right, exc |-> ""],
                            S.st, "", <<0>>,
                            FracOf(S.af.pitch_axis, S.af.chord), <<S.af.chord>>)
                   ELSE find_airfoil_part_edges(
                            find_airfoil_part_edges(
                                [left |-> S.left, right |-> S.right, exc |-> ""],
                                S.st, "upper_", upper_refpt(S.af),
                                FracOf(S.af.upper_SW_ref_pt_fraction,
                                       S.af.upper_chord),
                                <<S.af.upper_chord>>),
                            S.st, "lower_", lower_refpt(S.af),
                            FracOf(S.af.lower_SW_ref_pt_fraction, S.af.lower_chord),
                            <<S.af.lower_chord>>) } })

----------------------------------------------------------------------------
(* The bounding boxes.  A box is the list [pt1, pt2, pt3, pt4] its Polygon *)
(* is made of, a point a pair of floats; the bounds of the airfoil polygon *)
(* are S.af.bounds = <<minx, miny, maxx, maxy>>, multiples of 5, and a     *)
(* boundary buffer is given in tenths.                                     *)

\* x_boundary_buffer=1.2 and y_boundary_buffer=1.2, in tenths
DefaultBuffer == 12

\* v*buffer
Buffered(v, buffer) == <<(v * buffer) \div 10>>

\* part_bounding_box() as it would be with its points listed 1, 4, 3, 2
part_bounding_box_Clockwise(S, n, x_boundary_buffer, y_boundary_buffer) ==
    LET minx == S.af.bounds[1]
        miny == S.af.bounds[2]
        maxx == S.af.bounds[3]
        maxy == S.af.bounds[4]
    IN  IF S.left[n] # None /\ S.right[n] # None
        THEN << <<S.left[n], Buffered(miny, y_boundary_buffer)>>,
                <<S.left[n], Buffered(maxy, y_boundary_buffer)>>,
                <<S.right[n], Buffered(maxy, y_boundary_buffer)>>,
                <<S.right[n], Buffered(miny, y_boundary_buffer)>> >>
        ELSE << <<Buffered(minx, x_boundary_buffer), Buffered(miny, y_boundary_buffer)>>,
                <<Buffered(minx, x_boundary_buffer), Buffered(maxy, y_boundary_buffer)>>,
                <<Buffered(maxx, x_boundary_buffer), Buffered(maxy, y_boundary_buffer)>>,
                <<Buffered(maxx, x_boundary_buffer), Buffered(miny, y_boundary_buffer)>> >>

\* part_bounding_box(part, x_boundary_buffer, y_boundary_buffer), part the
\* part st.<n>
part_bounding_box(S, n, x_boundary_buffer, y_boundary_buffer) ==
    LET minx == S.af.bounds[1]
        miny == S.af.bounds[2]
        maxx == S.af.bounds[3]
        maxy == S.af.bounds[4]
    IN  IF S.left[n] # None /\ S.right[n] # None
        THEN << <<S.left[n], Buffered(miny, y_boundary_buffer)>>,
                <<S.right[n], Buffered(miny, y_boundary_buffer)>>,
                <<S.right[n], Buffered(maxy, y_boundary_buffer)>>,
                <<S.left[n], Buffered(maxy, y_boundary_buffer)>> >>
        ELSE << <<Buffered(minx, x_boundary_buffer), Buffered(miny, y_boundary_buffer)>>,
                <<Buffered(maxx, x_boundary_buffer), Buffered(miny, y_boundary_buffer)>>,
                <<Buffered(maxx, x_boundary_buffer), Buffered(maxy, y_boundary_buffer)>>,
                <<Buffered(minx, x_boundary_buffer), Buffered(maxy, y_boundary_buffer)>> >>

\* the box [x0, x1] x [miny*buffer, maxy*buffer], its points 1 to 4
Box(x0, x1, miny, maxy, y_boundary_buffer) ==
    << <<x0, Buffered(miny, y_boundary_buffer)>>,
       <<x1, Buffered(miny, y_boundary_buffer)>>,
       <<x1, Buffered(maxy, y_boundary_buffer)>>,
       <<x0, Buffered(maxy, y_boundary_buffer)>> >>

\* SW_bounding_boxes() as it would be with the foam box reaching to the
\* right edge of the shear web
SW_bounding_boxes_FoamToRight(S, n, y_boundary_buffer) ==
    LET left == S.left[n]
        right == S.right[n]
        base_biax == S.st[n].dims.base_biax
        miny == S.af.bounds[2]
        maxy == S.af.bounds[4]
    IN  IF left = None \/ right = None THEN [exc |-> "TypeError", ret |-> None]
        ELSE [exc |-> "",
              ret |-> << Box(left, FAdd(left, base_biax), miny, maxy,
                             y_boundary_buffer),
                         Box(FAdd(left, base_biax), right, miny, maxy,
                             y_boundary_buffer),
                         Box(FSub(right, base_biax), right, miny, maxy,
                             y_boundary_buffer) >>]

\* SW_bounding_boxes(SW_part, y_boundary_buffer), SW_part the shear web
\* st.<n>: [exc, ret], ret = (left_biax_bb, foam_bb, right_biax_bb)
SW_bounding_boxes(S, n, y_boundary_buffer) ==
    LET left == S.left[n]
        right == S.right[n]
        base_biax == S.st[n].dims.base_biax
        miny == S.af.bounds[2]
        maxy == S.af.bounds[4]
    IN  IF left = None \/ right = None THEN [exc |-> "TypeError", ret |-> None]
        ELSE [exc |-> "",
              ret |-> << Box(left, FAdd(left, base_biax), miny, maxy,
                             y_boundary_buffer),
                         Box(FAdd(left, base_biax), FSub(right, base_biax),
                             miny, maxy, y_boundary_buffer),
                         Box(FSub(right, base_biax), right, miny, maxy,
                             y_boundary_buffer) >>]

----------------------------------------------------------------------------
(* The polygons of the parts and their consumers.  S.polygon maps          *)
(* <<n, attribute>> to the value of st.<n>.<attribute>, for the attributes *)
(* assigned so far; a polygon is a tuple that names it.  A consumer walks  *)
(* a plan, the parts in the order of its if-statements, each with the      *)
(* attributes it reads of them, over a record m of what it has gathered,   *)
(* written or plotted (m.out) and the exception raised (m.exc).            *)

\* st.<n>.<a> = v
Assign(P, n, a, v) == (<<n, a>> :> v) @@ P

Item(n, how, attrs) == [part |-> n, how |-> how, attrs |-> attrs]

InternalSurfacePlan ==
    << Item("internal_surface_1", "union", <<"polygon_triax", "polygon_resin">>),
       Item("internal_surface_2", "union", <<"polygon_triax", "polygon_resin">>),
       Item("internal_surface_3", "union", <<"polygon_triax", "polygon_resin">>),
       Item("internal_surface_4", "union", <<"polygon_triax", "polygon_resin">>) >>

ShearWebPlan ==
    << Item("shear_web_1", "union",
            <<"polygon_left_biax", "polygon_foam", "polygon_right_biax">>),
       Item("shear_web_2", "union",
            <<"polygon_left_biax", "polygon_foam", "polygon_right_biax">>),
       Item("shear_web_3", "union",
            <<"polygon_left_biax", "polygon_foam", "polygon_right_biax">>) >>

\* the parts merge_all_parts() gathers, in its order
MergePlan(merge_internal_surface) ==
    << Item("external_surface", "union", <<"polygon_triax", "polygon_gelcoat">>),
       Item("root_buildup", "each", <<"polygon">>),
       Item("LE_panel", "each", <<"polygon">>),
       Item("spar_cap", "each", <<"polygon_upper", "polygon_lower">>),
       Item("aft_panel_1", "each", <<"polygon_upper", "polygon_lower">>),
       Item("aft_panel_2", "each", <<"polygon_upper", "polygon_lower">>),
       Item("TE_reinforcement", "try", <<"polygon_uniax", "polygon_foam">>) >>
    \o ShearWebPlan
    \o (IF merge_internal_surface THEN InternalSurfacePlan ELSE << >>)

\* the parts write_all_part_polygons() writes a file of, and plot_parts()
\* plots, in their order
WritePlan ==
    << Item("external_surface", "each", <<"polygon_triax", "polygon_gelcoat">>),
       Item("root_buildup", "each", <<"polygon">>),
       Item("spar_cap", "each", <<"polygon_lower", "polygon_upper">>),
       Item("aft_panel_1", "each", <<"polygon_lower", "polygon_upper">>),
       Item("aft_panel_2", "each", <<"polygon_lower", "polygon_upper">>),
       Item("LE_panel", "each", <<"polygon">>) >>
    \o [i \in 1..3 |-> [ShearWebPlan[i] EXCEPT !.how = "each"]]
    \o << Item("TE_reinforcement", "try", <<"polygon_uniax", "polygon_foam">>) >>
    \o [i \in 1..4 |-> [InternalSurfacePlan[i] EXCEPT !.how = "each"]]
PlotPlan ==
    << Item("external_surface", "each", <<"polygon_gelcoat", "polygon_triax">>) >>
    \o Tail(WritePlan)

\* the value of st.<n>.<a>: AttributeError when it was never assigned
Attr(P, n, a) ==
    IF <<n, a>> \in DOMAIN P THEN [exc |-> "", v |-> P[<<n, a>>]]
    ELSE [exc |-> "AttributeError", v |-> None]

\* p.union(q): None has no attribute 'union', and the polygon kernel
\* raises ValueError for a null operand
Union(p, q) ==
    IF p = None THEN [exc |-> "AttributeError", v |-> None]
    ELSE IF q = None THEN [exc |-> "ValueError", v |-> None]
    ELSE [exc |-> "", v |-> <<"union", p, q>>]

RECURSIVE UnionAttrs(_, _, _, _)
\* acc.union(st.<n>.<a>) for the attributes a of attrs, in turn
UnionAttrs(acc, P, n, attrs) ==
    IF attrs = << >> THEN [exc |-> "", v |-> acc]
    ELSE Only({ IF x.exc # "" THEN x
                ELSE Only({ IF u.exc # "" THEN u
                            ELSE UnionAttrs(u.v, P, n, Tail(attrs))
                            : u \in {Union(acc, x.v)} })
                : x \in {Attr(P, n, Head(attrs))} })

RECURSIVE Each(_, _, _, _, _)
\* the attributes attrs of st.<n> read in turn and put into m.out, each as
\* <<n, polygon>>; none_exc is what the consumer raises on a polygon that
\* is None ("" when it takes it as it is)
Each(m0, P, n, attrs, none_exc) ==
    IF attrs = << >> THEN m0
    ELSE Only({ IF m.exc # "" THEN m
                ELSE Only({ IF x.exc # "" THEN [m EXCEPT !.exc = x.exc]
                            ELSE IF x.v = None /\ none_exc # ""
                            THEN [m EXCEPT !.exc = none_exc]
                            ELSE Each([m EXCEPT !.out = Append(@, <<n, x.v>>)],
                                      P, n, Tail(attrs), none_exc)
                            : x \in {Attr(P, n, Head(attrs))} })
                : m \in {m0} })

\* merge_all_parts(): the TE reinforcement, lines 1053-1060
MergeTE(m0, P, n) ==
    Only({ IF uniax.exc # "" THEN [m0 EXCEPT !.exc = uniax.exc]
           ELSE Only({ IF foam.exc # "" THEN [m0 EXCEPT !.exc = foam.exc]
                       ELSE Only({ IF u.exc = "ValueError"
                                   THEN [m0 EXCEPT !.out = Append(@, <<n, uniax.v>>)]
                                   ELSE IF u.exc # "" THEN [m0 EXCEPT !.exc = u.exc]
                                   ELSE [m0 EXCEPT !.out = Append(@, <<n, u.v>>)]
                                   : u \in {Union(uniax.v, foam.v)} })
                       : foam \in {Attr(P, n, "polygon_foam")} })
           : uniax \in {Attr(P, n, "polygon_uniax")} })

\* one if-statement of merge_all_parts()
MergeStep(m0, S, item) ==
    Only({ IF m.exc # "" \/ ~exists(S.st[item.part]) THEN m
           ELSE IF item.how = "each"
           THEN Each(m, S.polygon, item.part, item.attrs, "")
           ELSE IF item.how = "try" THEN MergeTE(m, S.polygon, item.part)
           ELSE Only({ IF x.exc # "" THEN [m EXCEPT !.exc = x.exc]
                       ELSE Only({ IF u.exc # "" THEN [m EXCEPT !.exc = u.exc]
                                   ELSE [m EXCEPT !.out = Append(@, <<item.part, u.v>>)]
                                   : u \in {UnionAttrs(x.v, S.polygon, item.part,
                                                       Tail(item.attrs))} })
                       : x \in {Attr(S.polygon, item.part, Head(item.attrs))} })
           : m \in {m0} })

\* write_all_part_polygons(): the TE reinforcement, lines 1199-1211; the
\* bare except takes every exception of the foam region
WriteTE(m0, P, n) ==
    Only({ IF m.exc # "" THEN m
           ELSE Only({ IF x.exc = "" /\ x.v # None
                       THEN [m EXCEPT !.out = Append(@, <<n, x.v>>)]
                       ELSE [m EXCEPT !.out =
                                Append(@, <<n, <<"# ...the foam region doesn't exist!">> >>)]
                       : x \in {Attr(P, n, "polygon_foam")} })
           : m \in {Each(m0, P, n, <<"polygon_uniax">>, "AttributeError")} })

\* one if-statement of write_all_part_polygons()
WriteStep(m0, S, item) ==
    Only({ IF m.exc # "" \/ ~exists(S.st[item.part]) THEN m
           ELSE IF item.how = "try" THEN WriteTE(m, S.polygon, item.part)
           ELSE Each(m, S.polygon, item.part, item.attrs, "AttributeError")
           : m \in {m0} })

\* plot_parts(): the TE reinforcement, lines 1460-1468; PolygonPatch raises
\* TypeError for None
PlotTE(m0, P, n) ==
    Only({ IF m.exc # "" THEN m
           ELSE Only({ IF x.exc # "" THEN [m EXCEPT !.exc = x.exc]
                       ELSE IF x.v = None THEN m
                       ELSE [m EXCEPT !.out = Append(@, <<n, x.v>>)]
                       : x \in {Attr(P, n, "polygon_foam")} })
           : m \in {Each(m0, P, n, <<"polygon_uniax">>, "TypeError")} })

\* one if-statement of plot_parts()
PlotStep(m0, S, item) ==
    Only({ IF m.exc # "" \/ ~exists(S.st[item.part]) THEN m
           ELSE IF item.how = "try" THEN PlotTE(m, S.polygon, item.part)
           ELSE Each(m, S.polygon, item.part, item.attrs, "TypeError")
           : m \in {m0} })

RECURSIVE MergeWalk(_, _, _)
MergeWalk(m0, S, plan) ==
    IF plan = << >> THEN m0
    ELSE MergeWalk(MergeStep(m0, S, Head(plan)), S, Tail(plan))

RECURSIVE WriteWalk(_, _, _)
WriteWalk(m0, S, plan) ==
    IF plan = << >> THEN m0
    ELSE WriteWalk(WriteStep(m0, S, Head(plan)), S, Tail(plan))

RECURSIVE PlotWalk(_, _, _)
PlotWalk(m0, S, plan) ==
    IF plan = << >> THEN m0
    ELSE PlotWalk(PlotStep(m0, S, Head(plan)), S, Tail(plan))

NothingYet == [out |-> << >>, exc |-> ""]

\* merge_all_parts(plot_flag=False, merge_internal_surface): [exc, ret],
\* ret the cascaded union of list_of_parts
merge_all_parts(S, merge_internal_surface) ==
    Only({ [exc |-> m.exc,
            ret |-> IF m.exc # "" THEN None
                    ELSE <<"cascaded_union", [i \in DOMAIN m.out |-> m.out[i][2]]>>]
           : m \in {MergeWalk(NothingYet, S, MergePlan(merge_internal_surface))} })

\* write_all_part_polygons(): [exc, written], written the polygons written,
\* each with the part whose file it went to
write_all_part_polygons(S) ==
    Only({ [exc |-> m.exc, written |-> m.out]
           : m \in {WriteWalk(NothingYet, S, WritePlan)} })

\* plot_parts(): [exc, ret], ret the polygons on the axes
plot_parts(S) ==
    Only({ [exc |-> m.exc, ret |-> IF m.exc # "" THEN None ELSE m.out]
           : m \in {PlotWalk(NothingYet, S, PlotPlan)} })

----------------------------------------------------------------------------
(* create_polygons().  The polygon kernel is taken to find what the blade  *)
(* definition is drawn for: one polygon where a part is cut out of the     *)
(* profile in one piece and two where it is cut out of the lower and of    *)
(* the upper surface; Cut(n, 1) names the single or the lower polygon of   *)
(* part n and Cut(n, 2) the upper one.  The order in which the kernel      *)
(* lists the two (upper_first) and the interior rings of the merged parts  *)
(* (interiors) are inputs.                                                 *)
(* The method runs as a sequence of steps over a record c of the station   *)
(* with the polygons assigned so far (c.S) and the exception raised        *)
(* (c.exc).                                                                *)

Cut(n, k) == <<n, k>>

\* get_outer_profile_name() as it would be if the root buildup under an
\* external surface were given the profile of the parts inside it
get_outer_profile_name_RootBuildupInside(S, n) ==
    IF exists(S.st["external_surface"])
    THEN (IF n = "external_surface" THEN "airfoil"
          ELSE IF exists(S.st["root_buildup"])
          THEN "(airfoil) - (external surface) - (root buildup)"
          ELSE "(airfoil) - (external surface)")
    ELSE (IF exists(S.st["root_buildup"])
          THEN (IF n = "root_buildup" THEN "airfoil"
                ELSE "(airfoil) - (root buildup)")
          ELSE "airfoil")

\* get_outer_profile_name(part_name), part_name the name of st.<n>
get_outer_profile_name(S, n) ==
    IF exists(S.st["external_surface"])
    THEN (IF n = "external_surface" THEN "airfoil"
          ELSE IF exists(S.st["root_buildup"])
          THEN (IF n = "root_buildup" THEN "(airfoil) - (external surface)"
                ELSE "(airfoil) - (external surface) - (root buildup)")
          ELSE "(airfoil) - (external surface)")
    ELSE (IF exists(S.st["root_buildup"])
          THEN (IF n = "root_buildup" THEN "airfoil"
                ELSE "(airfoil) - (root buildup)")
          ELSE "airfoil")

\* af.polygon
Airfoil == <<"airfoil">>

\* p.buffer(-height, resolution=res): the polygon p eroded by height
Erode(p, height) == <<"buffer", p, FNeg(height)>>

\* get_profile(profile_name): [exc, ret]
get_profile(S, profile_name) ==
    CASE profile_name = "airfoil" -> [exc |-> "", ret |-> Airfoil]
      [] profile_name = "(airfoil) - (root buildup)" ->
            [exc |-> "", ret |-> Erode(Airfoil, S.st["root_buildup"].height)]
      [] profile_name = "(airfoil) - (external surface)" ->
            [exc |-> "", ret |-> Erode(Airfoil, S.st["external_surface"].height)]
      [] profile_name = "(airfoil) - (external surface) - (root buildup)" ->
            [exc |-> "",
             ret |-> Erode(Airfoil, FAdd(S.st["external_surface"].height,
                                         S.st["root_buildup"].height))]
      [] OTHER -> [exc |-> "NotImplementedError", ret |-> None]

\* steps 1 and 3 of extract_part(part_name): op_name and op, [exc, name, ret]
outer_profile(S, n) ==
    Only({ Only({ [exc |-> r.exc, name |-> op_name, ret |-> r.ret]
                  : r \in {get_profile(S, op_name)} })
           : op_name \in {get_outer_profile_name(S, n)} })

\* erode_part_thickness(part, outer_profile):
\* outer_profile.buffer(-part.height, resolution=res)
erode_part_thickness(p, op) == Erode(op, p.height)

\* the parts extract_part() and extract_TE_reinforcement() erode the outer
\* profile by (step 4)
ErodedParts ==
    {"root_buildup", "spar_cap", "aft_panel_1", "aft_panel_2", "LE_panel",
     "TE_reinforcement"}

\* get_gelcoat_and_triax_regions_of_ext_surf(entire_region): the dict d
get_gelcoat_and_triax_regions_of_ext_surf(ES, entire_region) ==
    LET hg == ES.dims.height_gelcoat
        ht == ES.dims.height_triax
        ip == <<"buffer", "airfoil", -hg[1]>>
    IN  IF isnan(hg) /\ isnan(ht)
        THEN ("triax region" :> None) @@ ("gelcoat region" :> None)
        ELSE IF isnan(hg)
        THEN ("triax region" :> entire_region) @@ ("gelcoat region" :> None)
        ELSE IF isnan(ht)
        THEN ("triax region" :> None) @@ ("gelcoat region" :> entire_region)
        ELSE ("triax region" :> <<"intersection", entire_region, ip>>)
             @@ ("gelcoat region" :> <<"difference", entire_region, ip>>)

\* d[key] of the dict cut_out_part() returns: KeyError when it is missing
DictGet(d, key) ==
    IF \E kv \in d : kv[1] = key
    THEN [exc |-> "", v |-> (CHOOSE kv \in d : kv[1] = key)[2]]
    ELSE [exc |-> "KeyError", v |-> None]

\* if st.external_surface.exists(): lines 430-443
CreateExternalSurface(c0) ==
    Only({ IF c.exc # "" \/ ~exists(c.S.st["external_surface"]) THEN c
           ELSE Only({ [c EXCEPT !.S.polygon =
                           Assign(Assign(@, "external_surface", "polygon_gelcoat",
                                         d["gelcoat region"]),
                                  "external_surface", "polygon_triax",
                                  d["triax region"])]
                       : d \in {get_gelcoat_and_triax_regions_of_ext_surf(
                                    c.S.st["external_surface"],
                                    <<"entire external surface">>)} })
           : c \in {c0} })

\* a part cut out in one piece: root buildup, LE panel
CreateSinglePart(c0, n) ==
    Only({ IF c.exc # "" \/ ~exists(c.S.st[n]) THEN c
           ELSE Only({ IF r.exc # "" THEN [c EXCEPT !.exc = r.exc]
                       ELSE Only({ IF x.exc # "" THEN [c EXCEPT !.exc = x.exc]
                                   ELSE [c EXCEPT !.S.polygon =
                                            Assign(@, n, "polygon", x.v)]
                                   : x \in {DictGet(r.ret, "single part")} })
                       : r \in {cut_out_part(Intersection(<<Cut(n, 1)>>))} })
           : c \in {c0} })

\* a part cut out of the lower and of the upper surface: spar cap, aft
\* panels
CreateLowerUpperPart(c0, n, upper_first) ==
    Only({ IF c.exc # "" \/ ~exists(c.S.st[n]) THEN c
           ELSE Only({ IF r.exc # "" THEN [c EXCEPT !.exc = r.exc]
                       ELSE Only({ IF x[1].exc # "" THEN [c EXCEPT !.exc = x[1].exc]
                                   ELSE IF x[2].exc # ""
                                   THEN [c EXCEPT !.exc = x[2].exc,
                                                  !.S.polygon =
                                            Assign(@, n, "polygon_lower", x[1].v)]
                                   ELSE [c EXCEPT !.S.polygon =
                                            Assign(Assign(@, n, "polygon_lower", x[1].v),
                                                   n, "polygon_upper", x[2].v)]
                                   : x \in {<<DictGet(r.ret, "lower part"),
                                              DictGet(r.ret, "upper part")>>} })
                       : r \in {cut_out_part(Intersection(
                                    IF upper_first THEN <<Cut(n, 2), Cut(n, 1)>>
                                    ELSE <<Cut(n, 1), Cut(n, 2)>>))} })
           : c \in {c0} })

\* a shear web: the outer profile cut by its three bounding boxes
CreateShearWeb(c0, n) ==
    Only({ IF c.exc # "" \/ ~exists(c.S.st[n]) THEN c
           ELSE Only({ IF bb.exc # "" THEN [c EXCEPT !.exc = bb.exc]
                       ELSE [c EXCEPT !.S.polygon =
                                Assign(Assign(Assign(@,
                                    n, "polygon_left_biax", Cut(n, 1)),
                                    n, "polygon_foam", Cut(n, 2)),
                                    n, "polygon_right_biax", Cut(n, 3))]
                       : bb \in {SW_bounding_boxes(c.S, n, DefaultBuffer)} })
           : c \in {c0} })

\* if st.TE_reinforcement.exists(): lines 477-480
CreateTEReinforcement(c0) ==
    Only({ IF c.exc # "" \/ ~exists(c.S.st["TE_reinforcement"]) THEN c
           ELSE Only({ [c EXCEPT !.S.polygon =
                           Assign(Assign(@, "TE_reinforcement", "polygon_uniax",
                                         d["uniax region"]),
                                  "TE_reinforcement", "polygon_foam",
                                  d["foam region"])]
                       : d \in {get_foam_and_uniax_regions_of_TE_reinf(
                                    c.S.st["TE_reinforcement"], <<"entire TE">>,
                                    exists(c.S.st["external_surface"]),
                                    exists(c.S.st["root_buildup"]))} })
           : c \in {c0} })

\* if st.internal_surface_<k>.exists(): the k-th interior loop of the
\* merged parts, eroded
CreateInternalSurface(c0, k, n, interiors) ==
    Only({ IF c.exc # "" \/ ~exists(c.S.st[n]) THEN c
           ELSE Only({ IF p.exc # "" THEN [c EXCEPT !.exc = p.exc]
                       ELSE Only({ IF loop.exc # "" THEN [c EXCEPT !.exc = loop.exc]
                                   ELSE [c EXCEPT !.S.polygon =
                                            Assign(Assign(@, n, "polygon_triax",
                                                          <<"triax of loop", loop.ret.id>>),
                                                   n, "polygon_resin",
                                                   <<"resin of loop", loop.ret.id>>)]
                                   : loop \in {get_interior_loop(interiors, k,
                                                                 AreaThreshold)} })
                       : p \in {merge_all_parts(c.S, FALSE)} })
           : c \in {c0} })

\* create_polygons() as it would be if the TE reinforcement were extracted
\* after the internal surfaces: the steps before the first internal surface
CreateOuterParts_TEReinforcementLater(S, upper_first) ==
    CreateShearWeb(CreateShearWeb(CreateShearWeb(
        CreateSinglePart(
            CreateLowerUpperPart(CreateLowerUpperPart(CreateLowerUpperPart(
                CreateSinglePart(
                    CreateExternalSurface([S |-> S, exc |-> ""]),
                    "root_buildup"),
                "spar_cap", upper_first), "aft_panel_1", upper_first),
                "aft_panel_2", upper_first),
            "LE_panel"),
        "shear_web_1"), "shear_web_2"), "shear_web_3")

\* create_polygons() up to the first internal surface (lines 430-480)
CreateOuterParts(S, upper_first) ==
    CreateTEReinforcement(
        CreateShearWeb(CreateShearWeb(CreateShearWeb(
            CreateSinglePart(
                CreateLowerUpperPart(CreateLowerUpperPart(CreateLowerUpperPart(
                    CreateSinglePart(
                        CreateExternalSurface([S |-> S, exc |-> ""]),
                        "root_buildup"),
                    "spar_cap", upper_first), "aft_panel_1", upper_first),
                    "aft_panel_2", upper_first),
                "LE_panel"),
            "shear_web_1"), "shear_web_2"), "shear_web_3"))

\* create_polygons(): [exc, S]
create_polygons(S, interiors, upper_first) ==
    CreateInternalSurface(CreateInternalSurface(CreateInternalSurface(
    CreateInternalSurface(
        CreateOuterParts(S, upper_first),
        1, "internal_surface_1", interiors),
        2, "internal_surface_2", interiors),
        3, "internal_surface_3", interiors),
        4, "internal_surface_4", interiors)

----------------------------------------------------------------------------
(* The stations the model is run on, and one action per method.            *)

\* the airfoil of a monoplane station of the given chord: pitch axis at a
\* quarter of the chord, the profile an eighth of the chord thick to either
\* side
MonoplaneAirfoil(chord) ==
    [pitch_axis |-> 1, chord |-> chord, total_chord |-> chord,
     upper_chord |-> chord, lower_chord |-> chord,
     upper_SW_ref_pt_fraction |-> 0, lower_SW_ref_pt_fraction |-> 0,
     stagger |-> 0,
     bounds |-> <<-(chord \div 4), -(chord \div 8), 3 * (chord \div 4),
                  chord \div 8>>]

\* the airfoil of a biplane station: two airfoils of the given chord, the
\* lower one staggered by half a chord, shear-web reference points at a
\* quarter of either chord
BiplaneAirfoil(chord) ==
    [pitch_axis |-> 1, chord |-> chord, total_chord |-> chord + chord \div 2,
     upper_chord |-> chord, lower_chord |-> chord,
     upper_SW_ref_pt_fraction |-> 1, lower_SW_ref_pt_fraction |-> 1,
     stagger |-> chord \div 2,
     bounds |-> <<-(chord \div 4), -chord, 5 * (chord \div 4), chord>>]

\* the chords of the stations: a station inboard, a station at the tip
Chords == {400, 80}

\* Structure.__init__: the parts of one airfoil
Structure(RB, SC, SW1, SW2, SW3, TE, LE, AP1, AP2, IS, ES) ==
    [n \in PartNames |->
        CASE n = "root_buildup" -> RB
          [] n = "spar_cap" -> SC
          [] n = "shear_web_1" -> SW1
          [] n = "shear_web_2" -> SW2
          [] n = "shear_web_3" -> SW3
          [] n = "TE_reinforcement" -> TE
          [] n = "LE_panel" -> LE
          [] n = "aft_panel_1" -> AP1
          [] n = "aft_panel_2" -> AP2
          [] n = "external_surface" -> ES
          [] OTHER -> IS[n]]

\* the laminate schedules of the stations.  Every part is there or not, the
\* shear webs, the aft panels and the internal surfaces counted from the
\* first, and the TE reinforcement is there with both of its materials or
\* with one; of these, the schedules of the load carrying parts alone
\* (bare) with a whole TE reinforcement or none, and the schedules with
\* every load carrying part (full)
Structures ==
    LET NoShearWeb == ShearWeb(NaN, NaN, NaN)
        NoPanel == Part(NaN, NaN)
        NoSurface == InternalSurface(NaN, NaN, NaN)
        schedules ==
            { Structure(RB, SC, SW[1], SW[2], SW[3], TE, LE, AP[1], AP[2],
                        [n \in PartNames |->
                            IF n \in IS THEN InternalSurface(NaN, <<2>>, <<2>>)
                            ELSE NoSurface],
                        ES) :
                RB \in {NoPanel, Part(NaN, <<2>>)},
                SC \in {NoPanel, Part(<<60>>, <<2>>)},
                SW \in { <<NoShearWeb, NoShearWeb, NoShearWeb>>,
                         <<ShearWeb(<<2>>, <<6>>, <<-30>>), NoShearWeb,
                           NoShearWeb>>,
                         <<NoShearWeb, ShearWeb(<<2>>, <<6>>, <<30>>),
                           ShearWeb(<<2>>, <<6>>, <<150>>)>>,
                         <<ShearWeb(<<2>>, <<6>>, <<-30>>),
                           ShearWeb(<<2>>, <<6>>, <<30>>),
                           ShearWeb(<<2>>, <<6>>, <<150>>)>> },
                TE \in { TE_Reinforcement(NaN, NaN, NaN),
                         TE_Reinforcement(<<50>>, <<2>>, <<2>>),
                         TE_Reinforcement(<<50>>, <<2>>, NaN),
                         TE_Reinforcement(<<50>>, NaN, <<2>>) },
                LE \in {NoPanel, Part(NaN, <<2>>)},
                AP \in { <<NoPanel, NoPanel>>, <<Part(NaN, <<2>>), NoPanel>>,
                         <<Part(NaN, <<2>>), Part(NaN, <<2>>)>> },
                IS \in { {}, {"internal_surface_1", "internal_surface_2"} },
                ES \in { ExternalSurface(NaN, NaN, NaN),
                         ExternalSurface(NaN, <<2>>, <<2>>) } }
        bare(st) ==
            /\ \A n \in PartNames \ EdgeParts : ~exists(st[n])
            /\ isnan(st["TE_reinforcement"].dims.height_uniax)
                    = isnan(st["TE_reinforcement"].dims.height_foam)
        full(st) == \A n \in EdgeParts \ {"TE_reinforcement"} : exists(st[n])
    IN  {st \in schedules : bare(st) \/ full(st)}

\* a biplane structure: the parts of the upper and of the lower airfoil
BiplaneStructure(upper, lower) ==
    [n \in StationParts("biplane") |->
        IF \E m \in PartNames : n = "upper_" \o m
        THEN upper[CHOOSE m \in PartNames : n = "upper_" \o m]
        ELSE lower[CHOOSE m \in PartNames : n = "lower_" \o m]]

\* MonoplaneStation.__init__ and BiplaneStation.__init__
Station(type, af, st) ==
    [type |-> type, af |-> af, st |-> st,
     left |-> Unset(StationParts(type)), right |-> Unset(StationParts(type)),
     polygon |-> NoPolygons]

\* the stations: a monoplane station of every chord and schedule, and a
\* biplane station of every chord whose airfoils both have the same
\* schedule of load carrying parts
Stations ==
    {Station("monoplane", MonoplaneAirfoil(chord), st) :
        chord \in Chords, st \in Structures}
    \cup {Station("biplane", BiplaneAirfoil(chord), BiplaneStructure(st, st)) :
            chord \in Chords,
            st \in {u \in Structures :
                        \A n \in PartNames \ EdgeParts : ~exists(u[n])}}

\* the interior rings of the merged parts, as the kernel may list them:
\* none, the first loop alone, and the first MaxLoops loops in either order
Interiors ==
    {[i \in 1..k |-> CHOOSE l \in Loops : l.id = i] : k \in {0, 1, MaxLoops}}
    \cup {[i \in 1..MaxLoops |->
                CHOOSE l \in Loops : l.id = Cardinality(Loops) + 1 - i]}

InitStructure ==
    /\ obj \in Stations
    /\ ret = None
    /\ exc = ""
    /\ last = NoStationCall
    /\ layer = None
    /\ prev = None
    /\ part = NoPart
    /\ sharp_TE = FALSE
    /\ written = << >>
    /\ calls = 0

FindPartEdges ==
    \E r \in {find_part_edges(obj)} :
        /\ obj' = r.S
        /\ exc' = r.exc
        /\ ret' = None
        /\ last' = [op |-> "find_part_edges", args |-> << >>]
        /\ written' = << >>
        /\ UNCHANGED <<layer, prev, part, sharp_TE, calls>>

PartBoundingBox ==
    \E n \in PartNames :
        /\ obj.type = "monoplane"
        /\ exists(obj.st[n])
        /\ ret' = part_bounding_box(obj, n, DefaultBuffer, DefaultBuffer)
        /\ exc' = ""
        /\ last' = [op |-> "part_bounding_box", args |-> <<n>>]
        /\ written' = << >>
        /\ UNCHANGED <<obj, layer, prev, part, sharp_TE, calls>>

SWBoundingBoxes ==
    \E n \in {"shear_web_1", "shear_web_2", "shear_web_3"} :
        /\ obj.type = "monoplane"
        /\ exists(obj.st[n])
        /\ \E r \in {SW_bounding_boxes(obj, n, DefaultBuffer)} :
            /\ ret' = r.ret
            /\ exc' = r.exc
            /\ last' = [op |-> "SW_bounding_boxes", args |-> <<n>>]
            /\ written' = << >>
            /\ UNCHANGED <<obj, layer, prev, part, sharp_TE, calls>>

CreatePolygons ==
    /\ obj.type = "monoplane"
    /\ \E interiors \in
            (IF \E n \in PartNames \ EdgeParts :
                    n \notin {"root_buildup", "external_surface"}
                    /\ exists(obj.st[n])
             THEN Interiors ELSE {<< >>}) :
      \E upper_first \in
            (IF \E n \in {"spar_cap", "aft_panel_1", "aft_panel_2"} :
                    exists(obj.st[n])
             THEN BOOLEAN ELSE {FALSE}) :
        \E r \in {create_polygons(obj, interiors, upper_first)} :
            /\ obj' = r.S
            /\ exc' = r.exc
            /\ ret' = None
            /\ last' = [op |-> "create_polygons", args |-> <<upper_first>>]
            /\ written' = << >>
            /\ UNCHANGED <<layer, prev, part, sharp_TE, calls>>

MergeAllParts ==
    \E merge_internal_surface \in BOOLEAN :
        /\ obj.type = "monoplane"
        /\ \E r \in {merge_all_parts(obj, merge_internal_surface)} :
            /\ ret' = r.ret
            /\ exc' = r.exc
            /\ last' = [op |-> "merge_all_parts",
                        args |-> <<merge_internal_surface>>]
            /\ written' = << >>
            /\ UNCHANGED <<obj, layer, prev, part, sharp_TE, calls>>

WriteAllPartPolygons ==
    /\ obj.type = "monoplane"
    /\ \E r \in {write_all_part_polygons(obj)} :
        /\ ret' = None
        /\ exc' = r.exc
        /\ written' = r.written
        /\ last' = [op |-> "write_all_part_polygons", args |-> << >>]
        /\ UNCHANGED <<obj, layer, prev, part, sharp_TE, calls>>

PlotParts ==
    /\ obj.type = "monoplane"
    /\ \E r \in {plot_parts(obj)} :
        /\ ret' = r.ret
        /\ exc' = r.exc
        /\ last' = [op |-> "plot_parts", args |-> << >>]
        /\ written' = << >>
        /\ UNCHANGED <<obj, layer, prev, part, sharp_TE, calls>>

\* the outer profile extract_part() takes for a part it cuts out of the
\* airfoil
OuterProfile ==
    \E n \in PartNames :
        /\ obj.type = "monoplane"
        /\ exists(obj.st[n])
        /\ n \in EdgeParts \cup {"root_buildup", "external_surface"}
        /\ \E r \in {outer_profile(obj, n)} :
            /\ ret' = [name |-> r.name, op |-> r.ret]
            /\ exc' = r.exc
            /\ last' = [op |-> "outer_profile", args |-> <<n>>]
            /\ written' = << >>
            /\ UNCHANGED <<obj, layer, prev, part, sharp_TE, calls>>

\* steps 1, 3 and 4 of extract_part(part_name): the inner profile ip
ErodePartThickness ==
    \E n \in ErodedParts :
        /\ obj.type = "monoplane"
        /\ exists(obj.st[n])
        /\ \E r \in {outer_profile(obj, n)} :
            /\ ret' = IF r.exc # "" THEN None
                      ELSE [op |-> r.ret,
                            ip |-> erode_part_thickness(obj.st[n], r.ret)]
            /\ exc' = r.exc
            /\ last' = [op |-> "erode_part_thickness", args |-> <<n>>]
            /\ written' = << >>
            /\ UNCHANGED <<obj, layer, prev, part, sharp_TE, calls>>

NextStructure ==
    \/ ErodePartThickness
    \/ FindPartEdges
    \/ PartBoundingBox
    \/ SWBoundingBoxes
    \/ CreatePolygons
    \/ MergeAllParts
    \/ WriteAllPartPolygons
    \/ PlotParts
    \/ OuterProfile

SpecStructure == InitStructure /\ [][NextStructure]_vars

----------------------------------------------------------------------------
(* Properties of Layer.get_and_save_edges.                                 *)

Roles == {"left", "top", "right", "bottom"}

\* the four edges of a quadrilateral layer: get_edges() returns and every
\* edge is a line (at least two points)
Quadrilateral(L, P, sharp) ==
    LET g == get_edges(L, P, sharp)
    IN  g.exc = "" /\ \A i \in 1..4 : Len(g.edges[i]) >= 2

\* the roles of L hold the edges es, one edge each and every edge once
RolesPartition(L, es) ==
    \E f \in [Roles -> 1..4] :
        /\ \A r1, r2 \in Roles : f[r1] = f[r2] => r1 = r2
        /\ \A r \in Roles : L[r] = es[f[r]]

\* C1: after get_and_save_edges() returns on a quadrilateral layer, of any
\* part family, left, top, right and bottom each hold one of the four edges
\* of get_edges(), no edge in two roles and no edge left out
C1_RolesPartitionEdges ==
    (last.op = "get_and_save_edges" /\ exc = ""
        /\ Quadrilateral(prev, part, sharp_TE))
    => RolesPartition(layer, get_edges(prev, part, sharp_TE).edges)

----------------------------------------------------------------------------
(* Properties of the edge splitters get_edges and get_edges2.              *)

RECURSIVE JoinEdges(_)
\* the edges es concatenated in order, the point two consecutive edges
\* share at their join taken once
JoinEdges(es) ==
    IF es = << >> THEN << >>
    ELSE Only({ IF r # << >> /\ Head(es)[Len(Head(es))] = r[1]
                THEN Head(es) \o Tail(r) ELSE Head(es) \o r
                : r \in {JoinEdges(Tail(es))} })

\* the join of the last edge with the first one
CloseJoin(j) ==
    IF Len(j) > 1 /\ j[1] = j[Len(j)] THEN SubSeq(j, 1, Len(j) - 1) ELSE j

\* u is the ring v started at another vertex
IsRotation(u, v) ==
    Len(u) = Len(v) /\ \E k \in 0..(Len(v) - 1) : u = Rotate(v, k)

\* the edges es put together give the exterior ring a (closing vertex
\* included in a), up to the vertex it starts at
RoundTrip(es, a) == IsRotation(CloseJoin(JoinEdges(es)), PySlice(a, 0, Len(a) - 1))

\* the edges the last call of get_edges2() appended to self.edges
NewEdges == SubSeq(EdgeVals(layer), Len(prev.edges) + 1, Len(layer.edges))

\* C2, for get_edges: the four edges get_and_save_edges() got from it,
\* joined in order, are the exterior ring of the polygon
C2_GetEdgesRoundTrip ==
    (last.op = "get_and_save_edges" /\ exc = "")
    => RoundTrip(get_edges(prev, part, sharp_TE).edges, prev.polygon)

\* C2, for get_edges2: the edges a call appends, joined in order, are the
\* exterior ring of the polygon
C2_GetEdges2RoundTrip ==
    (last.op = "get_edges2" /\ exc = "") => RoundTrip(NewEdges, layer.polygon)

\* C2: the edges of the edge splitter (get_edges for a regular layer,
\* get_edges2 for an alternate layer), joined in traversal order with the
\* corner shared at each join taken once, reproduce the exterior ring of the
\* polygon up to a rotation of its starting point
C2_EdgesReproduceRing == C2_GetEdgesRoundTrip /\ C2_GetEdges2RoundTrip

\* the calls that run the edge splitter of an alternate layer
SplitterOps == {"get_edges2", "write_alt_layer_edges", "write_alt_layer_edges2"}

\* C3: when a call that splits an alternate layer into edges returns, it
\* has made at most one edge per corner and left three or four of them:
\* for any other count an error is raised and no edge is saved or written
C3_EdgeCountThreeOrFour ==
    (last.op \in SplitterOps /\ exc = "")
    => /\ Len(layer.edges) - Len(prev.edges) <= Len(prev.corners)
       /\ Len(layer.edges) - Len(prev.edges) \in {3, 4}

----------------------------------------------------------------------------
(* Properties of Layer.find_corners.                                       *)

\* the vertices of the exterior ring of L, the closing one left out
OpenRing(L) == PySlice(L.polygon, 0, Len(L.polygon) - 1)

\* the point q lies on the segment p1-p2
OnSegment(q, p1, p2) ==
    /\ (PX(q) - PX(p1)) * (PY(p2) - PY(p1)) = (PY(q) - PY(p1)) * (PX(p2) - PX(p1))
    /\ (PX(p1) <= PX(q) /\ PX(q) <= PX(p2)) \/ (PX(p2) <= PX(q) /\ PX(q) <= PX(p1))
    /\ (PY(p1) <= PY(q) /\ PY(q) <= PY(p2)) \/ (PY(p2) <= PY(q) /\ PY(q) <= PY(p1))

\* the distance of the point c to the ring b is less than tol: some point of
\* the ring is (the sides of b run along the axes, so the point of b nearest
\* to c has whole coordinates)
DistanceBelow(c, b, tol) ==
    \E dx \in (-tol)..tol, dy \in (-tol)..tol :
        /\ dx * dx + dy * dy < tol * tol
        /\ \E i \in 1..(Len(b) - 1) :
              OnSegment(<<PX(c) + dx, PY(c) + dy>>, b[i], b[i + 1])

\* the places in the ring a of the vertices nearer than tol to the ring b
NearPlaces(a, b, tol) == {i \in DOMAIN a : DistanceBelow(a[i], b, tol)}

RECURSIVE IsSubSeq(_, _)
\* u is v with some elements left out, the others in their order
IsSubSeq(u, v) ==
    IF u = << >> THEN TRUE
    ELSE IF v = << >> THEN FALSE
    ELSE IF Head(u) = Head(v) THEN IsSubSeq(Tail(u), Tail(v))
    ELSE IsSubSeq(u, Tail(v))

\* C10: find_corners() leaves as self.corners the vertices of the exterior
\* ring (closing vertex excluded) whose distance to the boundary of the
\* bounding polygon is less than tol, each once and in ring order, whatever
\* corners were stored before
C10_CornersAreNearVertices ==
    last.op = "find_corners"
    => /\ IsSubSeq(layer.corners, OpenRing(layer))
       /\ \A i \in DOMAIN layer.corners :
            DistanceBelow(layer.corners[i], BoundingPolygons[last.b], TolCorners)
       /\ Len(layer.corners)
            = Cardinality(NearPlaces(OpenRing(layer), BoundingPolygons[last.b],
                                     TolCorners))

\* C10 is met by a second find_corners(), with another bounding polygon,
\* that keeps some of the vertices and not the ones stored before
C10_Witness ==
    /\ last.op = "find_corners"
    /\ prev.corners # << >>
    /\ layer.corners # << >>
    /\ layer.corners # prev.corners
    /\ Len(layer.corners) < Len(OpenRing(layer))

----------------------------------------------------------------------------
(* Properties of Layer.write_alt_layer_edges2.                             *)

\* the two endpoints of the edge e are within tol in both coordinates
WithinTol(e, tol) ==
    /\ Len(e) = 2
    /\ Abs(PX(e[1]) - PX(e[2])) < tol
    /\ Abs(PY(e[1]) - PY(e[2])) < tol

\* C6: when write_alt_layer_edges2() (tol = 1e-7) has prepared and written
\* the edges of a new alternate layer, no edge whose two endpoints are
\* within 1e-7 in both coordinates is left, and the edges that are left are
\* those of get_edges2() in their order
C6_SmallEdgesRemoved ==
    (last.op = "write_alt_layer_edges2" /\ exc = "" /\ prev.edges = << >>)
    => /\ \A i \in DOMAIN layer.edges : ~WithinTol(EdgeVals(layer)[i], TolWrite2)
       /\ IsSubSeq(EdgeVals(layer), EdgeVals(get_edges2(prev, TolEdges2).L))
       /\ Len(written) = Len(layer.edges)

----------------------------------------------------------------------------
(* Properties of Layer.move.                                               *)

\* the layer has its edges computed: left, top and bottom are saved (right
\* is None in a triangular region) and they are the edges of its polygon
HasEdges(L) ==
    /\ L.left # None /\ L.top # None /\ L.bottom # None
    /\ get_and_save_edges(L, part, sharp_TE) = [exc |-> "", L |-> L]

\* the roles of L are those of L0 with every point shifted by d in y
RolesShifted(L, L0, d) == \A r \in Roles : L[r] = Translate(L0[r], d)

\* C5: move(D) on a layer with computed edges, of any part family, leaves
\* left, top, right and bottom equal to the edges it had, every point
\* shifted by D in y
C5_MoveShiftsEdges ==
    (last.op = "move" /\ ~last.alt_layer /\ HasEdges(prev))
    => (exc = "" /\ RolesShifted(layer, prev, last.x3_offset))

\* C5 for the part families whose corners get_edges() finds by their x
C5_FamiliesMatchedByX ==
    (last.op = "move" /\ ~last.alt_layer /\ HasEdges(prev)
        /\ layer.cls # "RootBuildup")
    => (exc = "" /\ RolesShifted(layer, prev, last.x3_offset))

----------------------------------------------------------------------------
(* Properties of the Part classes and of the station methods.              *)

\* the defining dimensions an object was constructed with
Supplied(o) ==
    CASE o.cls = "Part" -> {o.base, o.height}
      [] o.cls = "ShearWeb" -> {o.dims.base_biax, o.dims.base_foam}
      [] o.cls = "TE_Reinforcement" ->
            {o.base, o.dims.height_uniax, o.dims.height_foam}
      [] o.cls = "InternalSurface" ->
            {o.base, o.dims.height_triax, o.dims.height_resin}
      [] o.cls = "ExternalSurface" ->
            {o.base, o.dims.height_triax, o.dims.height_gelcoat}

\* C4: exists() returns False if and only if every defining dimension the
\* part was constructed with is NaN, for Part and its four subclasses
C4_ExistsIffSomeDimensionDefined ==
    last.op = "exists" => (ret = FALSE <=> \A v \in Supplied(obj) : isnan(v))

\* C4 for the objects of class Part itself
C4_PlainPart ==
    (last.op = "exists" /\ obj.cls = "Part")
    => (ret = FALSE <=> \A v \in Supplied(obj) : isnan(v))

\* the polygons of the last cut_out_part() call, in the kernel's order
CutPolys == last.args[1]

C8_OneSubLayerTakesAll ==
    last.op = "get_foam_and_uniax_regions_of_TE_reinf"
    => LET hf == obj.dims.height_foam
           hu == obj.dims.height_uniax
       IN  /\ (isnan(hf) /\ ~isnan(hu))
                => /\ ret["uniax region"] = <<"entire TE">>
                   /\ ret["foam region"] = None
           /\ (isnan(hu) /\ ~isnan(hf))
                => /\ ret["foam region"] = <<"entire TE">>
                   /\ ret["uniax region"] = None
           /\ (isnan(hu) /\ isnan(hf))
                => /\ ret["foam region"] = None
                   /\ ret["uniax region"] = None

\* C8 is met by a TE reinforcement with height_uniax = 2, height_foam NaN
C8_Witness ==
    /\ last.op = "get_foam_and_uniax_regions_of_TE_reinf"
    /\ obj.dims.height_uniax = <<2>>
    /\ isnan(obj.dims.height_foam)
    /\ ret["uniax region"] = <<"entire TE">>

\* the interior rings and the number of the last get_interior_loop() call
LoopInteriors == last.args[1]
LoopNum == last.args[2]

\* the rings of the sequence t with an area above the threshold
BigLoops(t) == {t[i] : i \in {j \in DOMAIN t : t[j].area > AreaThreshold}}

\* ring r has the k-th smallest centroid.x of the rings G
KthSmallest(r, G, k) ==
    /\ r \in G
    /\ Cardinality({g \in G : g.cx < r.cx}) <= k - 1
    /\ Cardinality({g \in G : g.cx <= r.cx}) >= k

\* the orders in which the kernel may enumerate the rings of t
Orders(t) ==
    {u \in DistinctSeqs(Loops, MaxLoops) :
        Len(u) = Len(t) /\ {u[i] : i \in DOMAIN u} = {t[i] : i \in DOMAIN t}}

\* the call made returns what it returns for every order of the rings
SameForEveryOrder ==
    \A u \in Orders(LoopInteriors) :
        \E r \in {get_interior_loop(u, LoopNum, AreaThreshold)} :
            r.exc = exc /\ (exc = "" => r.ret = ret)

\* no two rings above the threshold have the same centroid.x
DistinctCentroidX(t) ==
    \A g1, g2 \in BigLoops(t) : g1.cx = g2.cx => g1 = g2

\* C9 as claimed: get_interior_loop(k) returns the ring with the k-th
\* smallest centroid x of the interior rings whose area exceeds the
\* threshold, the same ring for every order in which the kernel enumerates
\* the rings
C9_KthLoopForEveryOrder ==
    (last.op = "get_interior_loop"
        /\ LoopNum <= Cardinality(BigLoops(LoopInteriors)))
    => /\ exc = ""
       /\ KthSmallest(ret, BigLoops(LoopInteriors), LoopNum)
       /\ SameForEveryOrder

\* C9 as amended: the same, for rings above the threshold whose centroid x
\* are pairwise distinct
C9_KthLoopDistinctX ==
    (last.op = "get_interior_loop"
        /\ LoopNum <= Cardinality(BigLoops(LoopInteriors))
        /\ DistinctCentroidX(LoopInteriors))
    => /\ exc = ""
       /\ KthSmallest(ret, BigLoops(LoopInteriors), LoopNum)
       /\ SameForEveryOrder

\* C9 is met by three rings, enumerated right cell, sliver, left cell, of
\* which the second internal surface gets the right cell
C9_Witness ==
    /\ last.op = "get_interior_loop"
    /\ Len(LoopInteriors) = 3
    /\ LoopInteriors[1].id = 1 /\ LoopInteriors[2].id = 4
    /\ LoopInteriors[3].id = 2
    /\ LoopNum = 2
    /\ exc = "" /\ ret.id = 1

----------------------------------------------------------------------------
(* Properties of the bounding boxes of a station.                          *)

\* the part part_bounding_box() or SW_bounding_boxes() was called on
BoxPart == last.args[1]

----------------------------------------------------------------------------
(* Properties of the consumers of the part polygons.                       *)

\* create_polygons() has assigned every polygon of every part that exists
Created ==
    \A i \in DOMAIN WritePlan :
        exists(obj.st[WritePlan[i].part])
        => \A j \in DOMAIN WritePlan[i].attrs :
                <<WritePlan[i].part, WritePlan[i].attrs[j]>> \in DOMAIN obj.polygon

\* the sub-layers of the TE reinforcement
TEUniax == obj.polygon[<<"TE_reinforcement", "polygon_uniax">>]
TEFoam == obj.polygon[<<"TE_reinforcement", "polygon_foam">>]

\* the polygons a consumer took: the operands of the union, the polygons
\* written, the polygons plotted
Taken ==
    IF last.op = "merge_all_parts" THEN {ret[2][i] : i \in DOMAIN ret[2]}
    ELSE IF last.op = "write_all_part_polygons"
    THEN {written[i][2] : i \in DOMAIN written}
    ELSE {ret[i][2] : i \in DOMAIN ret}

\* C15: when one sub-layer of the TE reinforcement is absent (polygon_foam
\* is None or polygon_uniax is None), merge_all_parts,
\* write_all_part_polygons and plot_parts complete without an exception and
\* take the sub-layer that is present
C15_AbsentSubLayerTolerated ==
    (/\ last.op \in {"merge_all_parts", "write_all_part_polygons", "plot_parts"}
     /\ obj.type = "monoplane"
     /\ exists(obj.st["TE_reinforcement"])
     /\ Created
     /\ (TEUniax = None) # (TEFoam = None))
    => /\ exc = ""
       /\ (IF TEUniax = None THEN TEFoam ELSE TEUniax) \in Taken

----------------------------------------------------------------------------
(* Properties of find_part_edges.                                          *)

\* an edge that has a value: neither None nor NaN
Defined(v) == v # None /\ ~isnan(v)

\* C16: after find_part_edges has returned, of a monoplane or of a biplane
\* station, every part whose left and right are both defined has
\* left <= right
C16_LeftNotBeyondRight ==
    (last.op = "find_part_edges" /\ exc = "")
    => \A n \in DOMAIN obj.left :
            (Defined(obj.left[n]) /\ Defined(obj.right[n]))
            => obj.left[n][1] <= obj.right[n][1]

----------------------------------------------------------------------------
(* Properties of the bounding boxes of a shear web.                        *)

\* the chordwise span of the i-th box returned: the x of its points 1 and 2
BoxLeft(i) == ret[i][1][1][1]
BoxRight(i) == ret[i][2][1][1]

\* the box has its points 1 and 4 on one vertical line and its points 2
\* and 3 on another
Upright(box) == box[1][1] = box[4][1] /\ box[2][1] = box[3][1]

----------------------------------------------------------------------------
(* Properties of the roles get_and_save_edges gives the edges.             *)

\* the edges get_edges() cut the layer into before the call
EdgesBefore == get_edges(prev, part, sharp_TE).edges

\* an alternate layer of the TE reinforcement
AltTELayer(L) ==
    L.cls = "TE_Reinforcement" /\ L.name \notin {"uniax", "foam"}

\* C13: on a layer of four edges of a spar cap, an aft panel, a shear web
\* or of a (rectangular) alternate TE reinforcement layer, left is the
\* edge whose centroid has the least x, right the edge whose centroid has
\* the greatest x, and of the two that remain the one whose centroid is
\* higher is top and the other bottom
C13_RolesByCentroid ==
    (/\ last.op = "get_and_save_edges" /\ exc = ""
     /\ (prev.cls \in {"SparCap", "AftPanel", "ShearWeb"} \/ AltTELayer(prev))
     /\ Quadrilateral(prev, part, sharp_TE))
    => \E f \in [Roles -> 1..4] :
            /\ \A r1, r2 \in Roles : f[r1] = f[r2] => r1 = r2
            /\ \A r \in Roles : layer[r] = EdgesBefore[f[r]]
            /\ \A j \in 1..4 :
                    /\ ~CXLess(Centroid(EdgesBefore[j]),
                               Centroid(EdgesBefore[f["left"]]))
                    /\ ~CXLess(Centroid(EdgesBefore[f["right"]]),
                               Centroid(EdgesBefore[j]))
            /\ ~CYLess(Centroid(EdgesBefore[f["top"]]),
                       Centroid(EdgesBefore[f["bottom"]]))

\* C13 is met by the rectangular alternate layer 'uniax, upper left' of a
\* TE reinforcement, x from 40 to 72 and y from 28 to 60
C13_Witness ==
    /\ last.op = "get_and_save_edges" /\ exc = ""
    /\ AltTELayer(prev)
    /\ Quadrilateral(prev, part, sharp_TE)
    /\ layer.left = << <<40, 60>>, <<40, 28>> >>
    /\ layer.right = << <<72, 28>>, <<72, 60>> >>
    /\ layer.top = << <<72, 60>>, <<40, 60>> >>
    /\ layer.bottom = << <<40, 28>>, <<72, 28>> >>

----------------------------------------------------------------------------
(* Properties of Layer.write_layer_edges.                                  *)

\* the roles write_layer_edges was asked to write
RolesAsked ==
    IF last.triangular_region THEN <<"left", "bottom", "top">>
    ELSE <<"left", "bottom", "right", "top">>

\* the key of a role in the dictionary returned
KeyOf(role) == Prefix(layer, part) \o "; " \o role

Lines(es) == {i \in DOMAIN es : Len(es[i]) >= 2}

\* a triangular layer: get_edges() returns and one of its four edges is a
\* single point
Triangular(L, P, sharp) ==
    LET g == get_edges(L, P, sharp)
    IN  g.exc = "" /\ Cardinality(Lines(g.edges)) = 3

\* C17: on a triangular alternate layer of the TE reinforcement right is
\* None, left is the line whose centroid has the least x and, of the two
\* lines that remain, the one whose centroid is higher is top and the other
\* bottom, wherever among the four edges the single point is
C17_TriangleRoles ==
    (/\ last.op = "get_and_save_edges" /\ exc = ""
     /\ AltTELayer(prev)
     /\ Triangular(prev, part, sharp_TE))
    => /\ layer.right = None
       /\ \E f \in [{"left", "top", "bottom"} -> Lines(EdgesBefore)] :
            /\ \A r1, r2 \in DOMAIN f : f[r1] = f[r2] => r1 = r2
            /\ \A r \in DOMAIN f : layer[r] = EdgesBefore[f[r]]
            /\ \A j \in Lines(EdgesBefore) :
                    ~CXLess(Centroid(EdgesBefore[j]),
                            Centroid(EdgesBefore[f["left"]]))
            /\ ~CYLess(Centroid(EdgesBefore[f["top"]]),
                       Centroid(EdgesBefore[f["bottom"]]))

\* C17 is met by the triangle 'uniax, upper right' with its vertical side
\* on x = 60 and its tip at (100, 0)
C17_Witness ==
    /\ last.op = "get_and_save_edges" /\ exc = ""
    /\ AltTELayer(prev)
    /\ Triangular(prev, part, sharp_TE)
    /\ layer.right = None
    /\ layer.left = << <<60, 30>>, <<60, -30>> >>
    /\ layer.top = << <<100, 0>>, <<60, 30>> >>
    /\ layer.bottom = << <<60, -30>>, <<100, 0>> >>

----------------------------------------------------------------------------
(* Properties of Layer.move on an alternate layer.                         *)

\* C18: move(D, alt_layer=True) shifts the polygon, every corner and every
\* point of every edge of self.edges by exactly D in y, the corner points
\* that two consecutive edges share included
C18_AltMoveShiftsEveryPoint ==
    (last.op = "move" /\ last.alt_layer /\ prev.edges # << >>)
    => /\ exc = ""
       /\ layer.polygon = Translate(prev.polygon, last.x3_offset)
       /\ layer.corners = Translate(prev.corners, last.x3_offset)
       /\ Len(layer.edges) = Len(prev.edges)
       /\ \A i \in DOMAIN prev.edges :
            EdgeVal(layer, layer.edges[i])
                = Translate(EdgeVal(prev, prev.edges[i]), last.x3_offset)

----------------------------------------------------------------------------
(* Properties of Layer.get_edges2.                                         *)

\* the pieces the corners of L cut its exterior ring into, in ring order:
\* from each corner to the next one and, last, from the last corner round
\* the end of the ring to the first one
RingPieces(L) ==
    LET a == L.polygon
        match == SortInts([i \in DOMAIN L.corners |->
                                CornerIndex(a, L.corners[i])])
        n == Len(match)
    IN  [m \in 1..(n - 1) |-> SubSeq(a, match[m] + 1, match[m + 1] + 1)]
        \o << IF match[1] > 0
              THEN SubSeq(a, match[n] + 1, Len(a) - 1) \o SubSeq(a, 1, match[1] + 1)
              ELSE SubSeq(a, match[n] + 1, Len(a)) >>

\* a piece of two points that are less than tol apart in x and in y
TwoPointsWithin(e) == WithinTol(e, TolEdges2)

\* the pieces of L that are no such piece, in their order
PiecesKept(L) ==
    SelectSeq(RingPieces(L), LAMBDA e : ~TwoPointsWithin(e))

\* C19: get_edges2 leaves out every edge of two points that are less than
\* tol apart in x and in y, the wrap-around last edge too, and appends
\* every other edge
C19_DuplicateEdgesOmitted ==
    (last.op = "get_edges2" /\ exc = "")
    => /\ NewEdges = PiecesKept(prev)
       /\ \A i \in DOMAIN NewEdges : ~TwoPointsWithin(NewEdges[i])


\* C19 witness: get_edges2 has returned on a ring that closes with an edge
\* of two corners less than tol apart; the edge is left out and the other
\* pieces are appended
C19_Witness ==
    /\ last.op = "get_edges2" /\ exc = ""
    /\ TwoPointsWithin(RingPieces(prev)[Len(RingPieces(prev))])
    /\ Len(NewEdges) = Len(RingPieces(prev)) - 1
    /\ Len(NewEdges) >= 3


----------------------------------------------------------------------------
(* Properties of the roles of a root buildup layer.                        *)

\* the indices of the edges cut before the call whose centroid is on x = 0,
\* and of those whose centroid is on y = 0
OnX0 == {j \in DOMAIN EdgesBefore : Centroid(EdgesBefore[j]).x = 0}
OnY0 == {j \in DOMAIN EdgesBefore : Centroid(EdgesBefore[j]).y = 0}

\* the role the edge on x = 0 has in the quadrant called name, and the role
\* of the edge on y = 0
RoleOnX0(name) ==
    IF name \in {"triax, lower left", "triax, upper left"} THEN "right" ELSE "left"
RoleOnY0(name) ==
    IF name \in {"triax, lower left", "triax, upper left"} THEN "left" ELSE "right"

\* C20: in a root buildup layer 'triax, lower left' or 'triax, upper left'
\* the edge whose centroid is on x = 0 is saved as right and the edge whose
\* centroid is on y = 0 as left; in 'triax, lower right' and 'triax, upper
\* right' the edge on x = 0 is left and the edge on y = 0 is right; the
\* other two edges are top, the one whose centroid is higher, and bottom
C20_RootBuildupRoles ==
    (/\ last.op = "get_and_save_edges" /\ exc = ""
     /\ prev.cls = "RootBuildup"
     /\ prev.name \in {"triax, lower left", "triax, upper left",
                       "triax, lower right", "triax, upper right"})
    => /\ Cardinality(OnX0) = 1 /\ Cardinality(OnY0) = 1
       /\ \A j \in OnX0 : layer[RoleOnX0(prev.name)] = EdgesBefore[j]
       /\ \A j \in OnY0 : layer[RoleOnY0(prev.name)] = EdgesBefore[j]
       /\ \E t, b \in DOMAIN EdgesBefore \ (OnX0 \cup OnY0) :
            /\ t # b
            /\ DOMAIN EdgesBefore = OnX0 \cup OnY0 \cup {t, b}
            /\ layer.top = EdgesBefore[t]
            /\ layer.bottom = EdgesBefore[b]
            /\ ~CYLess(Centroid(EdgesBefore[t]), Centroid(EdgesBefore[b]))

\* C20 is met by the lower right quadrant between the radii 28 and 60: the
\* edge on x = 0 is left, the edge on y = 0 is right, the inner arc is top
C20_Witness ==
    /\ last.op = "get_and_save_edges" /\ exc = ""
    /\ prev.cls = "RootBuildup" /\ prev.name = "triax, lower right"
    /\ layer.left = << <<0, -28>>, <<0, -60>> >>
    /\ layer.right = << <<60, 0>>, <<28, 0>> >>
    /\ layer.top = << <<28, 0>>, <<28, -28>>, <<0, -28>> >>
    /\ layer.bottom = << <<0, -60>>, <<60, -60>>, <<60, 0>> >>


----------------------------------------------------------------------------
(* Properties of the outer profile of a part.                              *)

\* the surface parts that lie outward of part n
Outward(n) ==
    IF n = "external_surface" THEN << >>
    ELSE IF n = "root_buildup" THEN <<"external_surface">>
    ELSE <<"external_surface", "root_buildup">>

\* the heights of the parts ns that exist at the station
RECURSIVE HeightsOfExisting(_)
HeightsOfExisting(ns) ==
    IF ns = << >> THEN << >>
    ELSE (IF exists(obj.st[Head(ns)]) THEN <<obj.st[Head(ns)].height>> ELSE << >>)
         \o HeightsOfExisting(Tail(ns))

\* the airfoil eroded by the sum of the heights hs
ErodedBy(hs) ==
    IF hs = << >> THEN <<"airfoil">>
    ELSE <<"buffer", <<"airfoil">>,
           <<-(IF Len(hs) = 1 THEN hs[1][1] ELSE hs[1][1] + hs[2][1])>> >>

\* C21: the outer profile of an existing part is the airfoil eroded by the
\* heights of the surface parts that exist and lie outward of it (none for
\* the external surface, the external surface for the root buildup, both
\* for any other part), and get_profile accepts the name
\* get_outer_profile_name returns
C21_OuterProfileErodedByOutwardParts ==
    last.op = "outer_profile"
    => /\ exc = ""
       /\ \A h \in {HeightsOfExisting(Outward(last.args[1]))} :
            /\ \A i \in DOMAIN h : ~isnan(h[i])
            /\ ret.op = ErodedBy(h)

\* C21 witness: a spar cap under an external surface 4 thick (gelcoat and
\* triax) and a root buildup 2 thick: the outer profile is the airfoil
\* eroded by 6
C21_Witness ==
    /\ last.op = "outer_profile" /\ last.args = <<"spar_cap">>
    /\ exists(obj.st["external_surface"]) /\ exists(obj.st["root_buildup"])
    /\ exc = ""
    /\ ret.op = <<"buffer", <<"airfoil">>, <<-6>> >>


----------------------------------------------------------------------------
(* Properties of the lower and upper polygons of a part.                   *)

\* the parts cut out of the lower and of the upper surface
LowerUpperParts == {"spar_cap", "aft_panel_1", "aft_panel_2"}

\* polygon p is the one the part has on the lower (upper) surface: its
\* centroid is the lower (higher) of the two
OnLowerSurface(p) == p[2] = 1
OnUpperSurface(p) == p[2] = 2

\* C22: when the extraction of a spar cap or an aft panel has found two
\* polygons, polygon_lower is the one on the lower surface and
\* polygon_upper the one on the upper surface, in whichever order the
\* polygon kernel lists the two
C22_LowerPartOnLowerSurface ==
    (last.op = "create_polygons" /\ exc = "")
    => \A n \in LowerUpperParts :
            exists(obj.st[n])
            => /\ OnLowerSurface(obj.polygon[<<n, "polygon_lower">>])
               /\ OnUpperSurface(obj.polygon[<<n, "polygon_upper">>])


----------------------------------------------------------------------------
(* Properties of cut_polygon.                                              *)

\* the members of the intersection whose area is above the threshold
BigPieces(g) ==
    {g.geoms[i] : i \in {j \in DOMAIN g.geoms : g.geoms[j].area > CutAreaThreshold}}

\* C23: cut_polygon returns the intersection itself when it is one Polygon
\* and otherwise the one member whose area is above area_threshold; when
\* more than one member is above it, or none, it raises Warning
C23_OnePolygonOrWarning ==
    last.op = "cut_polygon"
    => \A g \in {last.args[1]} :
         IF g.geom_type = "Polygon" THEN exc = "" /\ ret = g.poly
         ELSE IF Cardinality(BigPieces(g)) = 1
         THEN exc = "" /\ ret \in BigPieces(g)
         ELSE exc = "Warning"


----------------------------------------------------------------------------
(* Properties of the order of the steps of create_polygons.                *)

\* the polygon attributes merge_all_parts() reads of the parts that exist
\* at the station, internal surfaces left out
ReadByMerge ==
    UNION {{<<MergePlan(FALSE)[i].part, MergePlan(FALSE)[i].attrs[j]>> :
                j \in DOMAIN MergePlan(FALSE)[i].attrs} :
           i \in {k \in DOMAIN MergePlan(FALSE) :
                    exists(obj.st[MergePlan(FALSE)[k].part])}}

\* the internal surfaces of the station one of whose polygons is assigned
InternalSurfacesAssigned ==
    {n \in {"internal_surface_1", "internal_surface_2", "internal_surface_3",
            "internal_surface_4"} :
        \E a \in {"polygon_triax", "polygon_resin"} : <<n, a>> \in DOMAIN obj.polygon}

\* C24: in create_polygons an internal surface is extracted (its interior
\* loop taken from merge_all_parts) only after the polygons of every
\* existing external surface, root buildup, spar cap, aft panel, LE panel,
\* shear web and TE reinforcement are assigned: every attribute
\* merge_all_parts reads of an existing part is set when the steps before
\* the first internal surface are done, also on a station none of whose
\* polygons was assigned before
C24_InternalSurfacesAfterOtherParts ==
    last.op = "create_polygons"
    => /\ \A c \in {CreateOuterParts([obj EXCEPT !.polygon = NoPolygons],
                                     last.args[1])} :
            c.exc = "" => /\ ReadByMerge \subseteq DOMAIN c.S.polygon
                          /\ \A k \in ReadByMerge :
                                obj.polygon[k] = c.S.polygon[k]
       /\ InternalSurfacesAssigned # {} => ReadByMerge \subseteq DOMAIN obj.polygon

\* C24 witness: create_polygons has returned on a station with every part,
\* both internal surfaces extracted
C24_Witness ==
    /\ last.op = "create_polygons" /\ exc = ""
    /\ \A n \in EdgeParts \cup {"root_buildup", "external_surface"} :
            exists(obj.st[n])
    /\ InternalSurfacesAssigned = {"internal_surface_1", "internal_surface_2"}
    /\ Cardinality(ReadByMerge) = 21


----------------------------------------------------------------------------
(* Properties of repeated calls of get_edges2 and of the edges             *)
(* write_alt_layer_edges2 throws out.                                      *)

\* the methods that call get_edges2 (get_edges2 itself among them)
EdgeSplitters == {"get_edges2", "write_alt_layer_edges", "write_alt_layer_edges2"}

\* the layer before the call as it was before any edge was stored
Fresh == [prev EXCEPT !.edges = << >>, !.arrays = << >>]

\* the edges one call of the method op stores on that layer
StoredByOneCall(op) ==
    IF op = "write_alt_layer_edges2"
    THEN EdgeVals(write_alt_layer_edges2(Fresh, StartEdgeNum, TolWrite2).L)
    ELSE EdgeVals(get_edges2(Fresh, TolEdges2).L)

\* C25: however often get_edges2 has run on a layer (directly or through
\* write_alt_layer_edges and write_alt_layer_edges2) with the same polygon
\* and corners, self.edges is what a single call stores, and no more
\* edges are stored or written than there are corners
C25_RepeatedCallsKeepEdges ==
    (last.op \in EdgeSplitters /\ exc = "")
    => /\ EdgeVals(layer) = StoredByOneCall(last.op)
       /\ Len(layer.edges) <= Len(layer.corners)
       /\ Len(written) <= Len(layer.corners)

\* the edges get_edges2 leaves write_alt_layer_edges2 with, before it
\* throws any out
EdgesBeforePop == EdgeVals(get_edges2(prev, TolEdges2).L)

\* C26: write_alt_layer_edges2 throws out no edge of more than two points
\* and no edge whose endpoints differ by tol or more, in absolute value, in
\* x or in y: an edge it throws out has two points less than tol apart in
\* both coordinates
C26_OnlyDegenerateEdgesDiscarded ==
    (last.op = "write_alt_layer_edges2" /\ exc = ""
     /\ Len(layer.edges) < Len(EdgesBeforePop))
    => \E i \in DOMAIN EdgesBeforePop :
            /\ WithinTol(EdgesBeforePop[i], TolWrite2)
            /\ EdgeVals(layer) = Pop(EdgesBeforePop, i)


----------------------------------------------------------------------------
(* lib/station.py: _Station.__init__ and _Station.__del__                  *)
(*                                                                         *)
(* The class attribute number_of_stations counts the stations; a new       *)
(* station takes the incremented count as its station_num and makes the    *)
(* directory blade_path/stnNN.  The state is obj = [number_of_stations,    *)
(* stations, dirs]: the class attribute, the live stations in the order of *)
(* their construction, and the directories that exist.  os.mkdir on an     *)
(* existing directory raises WindowsError, which __init__ catches.         *)

\* the most stations alive at a time
MaxStations == 4

\* the blade_path the stations of a blade are constructed with
BladePath == "blade_path"

\* the decimal digits of n >= 0, most significant first
RECURSIVE Digits(_)
Digits(n) == IF n < 10 THEN <<n>> ELSE Append(Digits(n \div 10), n % 10)

\* '{0:02d}'.format(n): the digits of n, padded with a zero to two places
Format02d(n) == IF Len(Digits(n)) < 2 THEN <<0>> \o Digits(n) ELSE Digits(n)

\* os.path.join(blade_path, 'stn{0:02d}'.format(station_num))
StationPath(blade_path, station_num) ==
    <<blade_path, "stn">> \o Format02d(station_num)

\* _Station.__init__ (MonoplaneStation and BiplaneStation call it first)
Station__init__(B, blade_path) ==
    LET n    == B.number_of_stations + 1
        self == [station_num  |-> n,
                 station_path |-> StationPath(blade_path, n)]
    IN  [number_of_stations |-> n,
         stations |-> Append(B.stations, self),
         dirs |-> B.dirs \cup {self.station_path}]

\* _Station.__del__ of the i-th live station
Station__del__(B, i) ==
    [B EXCEPT !.number_of_stations = B.number_of_stations - 1,
              !.stations = Pop(B.stations, i)]

InitBlade ==
    /\ obj = [number_of_stations |-> 0, stations |-> << >>, dirs |-> {}]
    /\ ret = None
    /\ exc = ""
    /\ last = NoStationCall
    /\ layer = None
    /\ prev = None
    /\ part = NoPart
    /\ sharp_TE = FALSE
    /\ written = << >>
    /\ calls = 0

NewStation ==
    /\ Len(obj.stations) < MaxStations
    /\ obj' = Station__init__(obj, BladePath)
    /\ prev' = obj
    /\ last' = [op |-> "__init__", args |-> <<BladePath>>]
    /\ UNCHANGED <<ret, exc, layer, part, sharp_TE, written, calls>>

DelStation ==
    \E i \in DOMAIN obj.stations :
        /\ obj' = Station__del__(obj, i)
        /\ prev' = obj
        /\ last' = [op |-> "__del__", args |-> <<i>>]
        /\ UNCHANGED <<ret, exc, layer, part, sharp_TE, written, calls>>

NextBlade ==
    \/ NewStation
    \/ DelStation

SpecBlade == InitBlade /\ [][NextBlade]_vars

\* C29: after any constructions and deletions of stations, no two live
\* stations have the same station_num, and so no two have the same
\* station_path
C29_StationNumbersDistinct ==
    (last.op \in {"__init__", "__del__"})
    => \A i, j \in DOMAIN obj.stations :
            i # j => /\ obj.stations[i].station_num # obj.stations[j].station_num
                     /\ obj.stations[i].station_path # obj.stations[j].station_path


----------------------------------------------------------------------------
(* The thickness the outer profile is eroded by for a TE reinforcement.    *)

\* a TE reinforcement with a defined base and exactly one of height_uniax
\* and height_foam defined
OneSubHeight(o) ==
    /\ o.cls = "TE_Reinforcement"
    /\ ~isnan(o.base)
    /\ isnan(o.dims.height_uniax) # isnan(o.dims.height_foam)

\* the defined one of height_uniax and height_foam
DefinedSubHeight(o) ==
    IF isnan(o.dims.height_uniax) THEN o.dims.height_foam
    ELSE o.dims.height_uniax

\* C27: for a TE reinforcement with a defined base and exactly one of
\* height_uniax and height_foam defined, the outer profile is eroded by
\* the defined sub-thickness, a number and never NaN
C27_TEReinforcementErodedByDefinedHeight ==
    (last.op = "erode_part_thickness" /\ exc = ""
     /\ last.args = <<"TE_reinforcement">>
     /\ OneSubHeight(obj.st["TE_reinforcement"]))
    => /\ ~isnan(ret.ip[3])
       /\ ret.ip = Erode(ret.op, DefinedSubHeight(obj.st["TE_reinforcement"]))


----------------------------------------------------------------------------
(* The bounding boxes on airfoils of any position.                         *)
(*                                                                         *)
(* The airfoil polygon is made of the coordinates of the airfoil file and  *)
(* its bounds are whatever the file gives: the stations below have the     *)
(* monoplane airfoil as it is and offset along x2 and along x3, so that    *)
(* the profile lies above, below, left or right of the origin.             *)

\* the airfoil of the given chord, its coordinates offset by (dx, dy)
OffsetAirfoil(chord, dx, dy) ==
    [MonoplaneAirfoil(chord) EXCEPT
        !.bounds = <<@[1] + dx, @[2] + dy, @[3] + dx, @[4] + dy>>]

\* the offsets: none, up and down by a quarter of the chord (twice the
\* half thickness), right by half a chord and left by a chord
Offsets(chord) ==
    { <<0, 0>>, <<0, chord \div 4>>, <<0, -(chord \div 4)>>,
      <<chord \div 2, 0>>, <<-chord, 0>> }

\* the stations: every load carrying part and a whole TE reinforcement,
\* with and without root buildup, surfaces
BoxStations ==
    UNION {{Station("monoplane", OffsetAirfoil(chord, d[1], d[2]), st) :
                d \in Offsets(chord),
                st \in {u \in Structures :
                            /\ \A n \in EdgeParts : exists(u[n])
                            /\ ~isnan(u["TE_reinforcement"].height)}}
           : chord \in Chords}

InitBox ==
    /\ obj \in BoxStations
    /\ ret = None
    /\ exc = ""
    /\ last = NoStationCall
    /\ layer = None
    /\ prev = None
    /\ part = NoPart
    /\ sharp_TE = FALSE
    /\ written = << >>
    /\ calls = 0

NextBox ==
    \/ FindPartEdges
    \/ PartBoundingBox
    \/ SWBoundingBoxes

SpecBox == InitBox /\ [][NextBox]_vars

\* the box bb reaches from the bottom to the top of the airfoil, or beyond
SpansVertically(bb) ==
    /\ bb[1][2][1] <= obj.af.bounds[2] /\ bb[2][2][1] <= obj.af.bounds[2]
    /\ bb[3][2][1] >= obj.af.bounds[4] /\ bb[4][2][1] >= obj.af.bounds[4]

\* the box bb reaches from the left to the right of the airfoil, or beyond
SpansHorizontally(bb) ==
    /\ bb[1][1][1] <= obj.af.bounds[1] /\ bb[4][1][1] <= obj.af.bounds[1]
    /\ bb[2][1][1] >= obj.af.bounds[3] /\ bb[3][1][1] >= obj.af.bounds[3]

\* C28: for any bounds of the airfoil, the boxes of part_bounding_box and
\* SW_bounding_boxes reach vertically from miny to maxy at least, and the
\* box of a part without left and right reaches horizontally from minx to
\* maxx at least
C28_BoxesContainProfile ==
    /\ (last.op = "part_bounding_box")
       => /\ SpansVertically(ret)
          /\ (obj.left[last.args[1]] = None \/ obj.right[last.args[1]] = None)
             => SpansHorizontally(ret)
    /\ (last.op = "SW_bounding_boxes" /\ exc = "")
       => \A i \in DOMAIN ret : SpansVertically(ret[i])


----------------------------------------------------------------------------
(* The edges find_part_edges() leaves on parts of which only one of base   *)
(* and height, or no x2, is given.                                         *)

\* the part o with its base (a shear web: its x2) not given
Undimensioned(o) ==
    IF o.cls = "ShearWeb"
    THEN ShearWeb(o.dims.base_biax, o.dims.base_foam, NaN)
    ELSE IF o.cls = "TE_Reinforcement"
    THEN TE_Reinforcement(NaN, o.dims.height_uniax, o.dims.height_foam)
    ELSE Part(NaN, o.height)

\* the parts whose edges find_part_edges() computes from their own
\* dimensions
DimensionedParts ==
    {"spar_cap", "TE_reinforcement", "shear_web_1", "shear_web_2",
     "shear_web_3"}

\* the stations: the monoplane stations with every load carrying part, as
\* they are and with the base or x2 of one part not given
EdgeStations ==
    LET whole == {u \in Structures : \A n \in EdgeParts : exists(u[n])}
    IN  {Station("monoplane", MonoplaneAirfoil(chord), st) :
            chord \in Chords,
            st \in whole \cup
                   {[u EXCEPT ![n] = Undimensioned(u[n])] :
                        u \in whole, n \in DimensionedParts}}

InitEdges ==
    /\ obj \in EdgeStations
    /\ ret = None
    /\ exc = ""
    /\ last = NoStationCall
    /\ layer = None
    /\ prev = None
    /\ part = NoPart
    /\ sharp_TE = FALSE
    /\ written = << >>
    /\ calls = 0

NextEdges == FindPartEdges

SpecEdges == InitEdges /\ [][NextEdges]_vars

\* the edge is a number: neither unset nor NaN
RealEdge(e) == e # None /\ ~isnan(e)

\* C30: when MonoplaneStation.find_part_edges returns without raising,
\* left and right of every existing spar cap, TE reinforcement, shear web,
\* LE panel and aft panel are numbers, never NaN
C30_EdgesAreRealNumbers ==
    (last.op = "find_part_edges" /\ exc = "" /\ obj.type = "monoplane")
    => \A n \in EdgeParts :
            exists(obj.st[n])
            => RealEdge(obj.left[n]) /\ RealEdge(obj.right[n])

=============================================================================
